---- MODULE Spec2Model ----
(***************************************************************************)
(* State-machine model of the s3_storage object store: the API gateway     *)
(* (upload, download, reclamation job), the metadata store (files, chunks, *)
(* upload_sessions) and the chunk servers (PutChunk, GetChunk,             *)
(* DeleteChunk on a data directory).                                       *)
(***************************************************************************)
EXTENDS Integers, Sequences, FiniteSets, TLC

\* ------------------------------------------------------------------ bounds
MaxFiles == 1          \* upload requests (each mints one file id)
MaxSize == 12          \* largest declared file size, in bytes
NumServers == 2        \* chunk servers
MaxFaults == 1         \* environment events per behaviour (injected faults,
                       \* cancellations, corruptions, server stops, session rows)
MaxTime == 3           \* clock ticks (one tick = one reclamation interval)
MaxSessions == 1       \* upload_sessions rows ever inserted
MaxDownloads == 1      \* download requests
FrameSize == 1         \* bytes per stream frame (64 KiB in the source, scaled)
SessionTTL == 1        \* session time to live in ticks (1 h in the source, scaled)
MaxPutLen == 2
MaxPutByte == 2
MaxRingServers == 4    \* server ids offered to the ring alone
MaxLockServers == 2    \* server ids offered to the ring under its mutex
MaxRingNodes == 10     \* virtual nodes on the ring alone
MaxShellCalls == 9     \* Execute calls on the breaker alone
MaxInflight == 2       \* Execute calls in flight at once
MaxRetryTime == 8      \* seconds of wall clock for one retry.Do call
MaxRefreshTime == 8    \* heartbeat intervals of wall clock for the refresh loop
MaxTopologyTime == 3   \* heartbeat intervals of wall clock for requests under ring changes
MaxStoreSessions == 2  \* session ids handed to the storage layer directly

\* ------------------------------------------------------- program constants
numChunks == 6
MaxRetries == 3
InitialBackoff == 1     \* retry.DefaultInitialBackoff, in seconds
MaxBackoff == 8         \* retry.DefaultMaxBackoff, in seconds
CleanupInterval == 1
VirtualNodes == 2        \* virtual nodes per server (150 in the source, scaled)
HashSpace == 16          \* size of the hash space (2^64 in the source, scaled)
MaxFailures == 5
HalfOpenMaxRequests == 3
OpenTimeout == 0         \* breaker open time in ticks (30 s in the source, scaled)
RefreshInterval == 3    \* HashRingRefreshInterval in heartbeat intervals (30 s over 10 s)
HeartbeatTimeout == 3   \* ServerHeartbeatTimeout in heartbeat intervals (30 s over 10 s)
HealthCheckInterval == 1 \* ConnectionHealthCheckInterval in heartbeat intervals (10 s over 10 s)

FileIds == 1..MaxFiles
Servers == 1..NumServers
ChunkIds == FileIds \X (0..(numChunks - 1))
\* A size limit one byte too generous.
maxFileSizeLoose == MaxSize + 1
maxFileSize == MaxSize   \* largest accepted size (10 GiB in the source, scaled)
Sizes == 0..(MaxSize + 1)

\* ------------------------------------------------------------------- bytes
\* The request body of size S: byte i has value i, so that any loss,
\* duplication or reordering of bytes is visible in the content.
Body(S) == [i \in 1..S |-> i]
\* The byte a disk fault writes over a stored byte.
CorruptByte == 99
\* The first byte of the JSON error document gin appends on abort.
JsonByte == 0

\* SHA-256 followed by hex encoding, as an ideal (collision-free) digest: two
\* byte strings have the same digest iff they are equal.  The empty string ""
\* (a NULL checksum column) is the digest of nothing.
Sha256Hex(data) == <<"sha256", data>>
NoChecksum == <<"null", <<>>>>

\* -------------------------------------------------------------- chunker
Min(a, b) == IF a < b THEN a ELSE b

\* chunker.CalculateChunkBoundaries(fileSize, numChunks): the sequence of
\* ChunkInfo{Number, Offset, Size}; <<>> stands for the error return.
\* The loop with the remainder given to the last chunks.
RECURSIVE BoundariesTail(_, _, _, _, _)
BoundariesTail(base, remainder, n, i, offset) ==
    IF i >= n THEN <<>>
    ELSE LET chunkSize == IF i >= n - remainder THEN base + 1 ELSE base
         IN  <<[Number |-> i, Offset |-> offset, Size |-> chunkSize]>>
             \o BoundariesTail(base, remainder, n, i + 1, offset + chunkSize)

RECURSIVE Boundaries(_, _, _, _, _)
Boundaries(base, remainder, n, i, offset) ==
    IF i >= n THEN <<>>
    ELSE LET chunkSize == IF i < remainder THEN base + 1 ELSE base
         IN  <<[Number |-> i, Offset |-> offset, Size |-> chunkSize]>>
             \o Boundaries(base, remainder, n, i + 1, offset + chunkSize)

CalculateChunkBoundaries(fileSize, n) ==
    IF fileSize <= 0 \/ fileSize > maxFileSize \/ n <= 0 THEN <<>>
    ELSE Boundaries(fileSize \div n, fileSize % n, n, 0, 0)

\* io.ReadFull of chunk i's span from a request body that delivers L bytes
\* of a file declared S bytes long: a short read (io.EOF,
\* io.ErrUnexpectedEOF) keeps the bytes that were read.
ChunkData(S, L, i) ==
    LET b == CalculateChunkBoundaries(S, numChunks)[i + 1]
    IN  SubSeq(Body(L), b.Offset + 1, Min(b.Offset + b.Size, L))

\* The frames a sender cuts `data` into: ceil(len / FrameSize) of them.
NumFrames(data) == (Len(data) + FrameSize - 1) \div FrameSize
\* The bytes carried by the first k frames of `data`.
FramesPrefix(data, k) == SubSeq(data, 1, Min(Len(data), k * FrameSize))

\* ----------------------------------------------------------- finite maps
\* Maps keep a fixed domain; an absent key holds the map's "no entry" record.

\* ------------------------------------------------------- placement ring
\* xxhash.Sum64 of the virtual key "<serverID>#<i>", on a scaled hash space.
XxHashNode(s, v) == (s * 7 + v * 5) % HashSpace
\* xxhash.Sum64 of a chunk id (a freshly minted UUID string).
XxHashKey(cid) == (cid[1] * 3 + cid[2] * 5) % HashSpace

\* sort.Slice by HashValue: every arrangement of `nodes` that is ordered by
\* hash value (the sort is not stable, ties may come out in any order).
\* Built by inserting the nodes one at a time at every position that keeps
\* the order.
InsertSorted(seq, node) ==
    { SubSeq(seq, 1, k) \o <<node>> \o SubSeq(seq, k + 1, Len(seq)) :
        k \in { j \in 0..Len(seq) :
                  /\ \A a \in 1..j : seq[a].HashValue <= node.HashValue
                  /\ \A b \in (j + 1)..Len(seq) : node.HashValue <= seq[b].HashValue } }

RECURSIVE SortNodes(_, _)
SortNodes(done, todo) ==
    IF todo = <<>> THEN done
    ELSE SortNodes(UNION { InsertSorted(q, Head(todo)) : q \in done }, Tail(todo))

\* HashRing.AddServer: register the server, append its virtual nodes, sort.
\* The set of rings the call may leave.
AddServer(hr, s) ==
    LET fresh == [v \in 1..VirtualNodes |->
                    [HashValue |-> XxHashNode(s, v - 1), ServerID |-> s]]
    IN  { [nodes |-> q, servers |-> hr.servers \cup {s}] :
            q \in SortNodes({ <<>> }, hr.nodes \o fresh) }

\* HashRing.RemoveServer: ErrServerNotFound leaves the ring as it is.
SelectNodes(seq, s) == SelectSeq(seq, LAMBDA n : n.ServerID # s)
RemoveServer(hr, s) ==
    IF s \notin hr.servers THEN hr
    ELSE [nodes |-> SelectNodes(hr.nodes, s), servers |-> hr.servers \ {s}]

\* A search for the first node strictly above the key.
SearchNodesAbove(nodes, keyHash) ==
    LET hit == { i \in 1..Len(nodes) : nodes[i].HashValue > keyHash }
    IN  IF hit = {} THEN Len(nodes) + 1
        ELSE CHOOSE i \in hit : \A j \in hit : i <= j

\* sort.Search: the least index whose node has HashValue >= keyHash, or
\* Len + 1 when there is none.
SearchNodes(nodes, keyHash) ==
    LET hit == { i \in 1..Len(nodes) : nodes[i].HashValue >= keyHash }
    IN  IF hit = {} THEN Len(nodes) + 1
        ELSE CHOOSE i \in hit : \A j \in hit : i <= j

\* HashRing.GetServer: the server id, or NoServer for ErrNoServersAvailable.
NoServer == 0
GetServer(hr, keyHash) ==
    IF Len(hr.nodes) = 0 THEN NoServer
    ELSE LET idx == SearchNodes(hr.nodes, keyHash)
         IN  hr.nodes[IF idx > Len(hr.nodes) THEN 1 ELSE idx].ServerID

NewHashRing == [nodes |-> <<>>, servers |-> {}]

\* initializeHashRing: AddServer for every active server, in server_id order.
RECURSIVE InitialRings(_, _)
InitialRings(rings, s) ==
    IF s > NumServers THEN rings
    ELSE InitialRings(UNION { AddServer(hr, s) : hr \in rings }, s + 1)

\* ------------------------------------------------------ circuit breaker
\* circuitbreaker.NewCircuitBreaker(DefaultConfig()).
NewCircuitBreaker ==
    [state |-> "closed", failures |-> 0, successes |-> 0,
     lastFailureTime |-> 0, halfOpenRequests |-> 0]

\* The counters are only ever compared with their thresholds, so they are
\* kept saturated at the threshold.
Sat(n, cap) == IF n > cap THEN cap ELSE n

\* CircuitBreaker.beforeRequest at time t: <<breaker after the call, admitted>>.
beforeRequest(cb, t) ==
    CASE cb.state = "closed" -> <<cb, TRUE>>
      [] cb.state = "open" ->
            IF t - cb.lastFailureTime > OpenTimeout
            THEN <<[cb EXCEPT !.state = "half-open", !.halfOpenRequests = 0], TRUE>>
            ELSE <<cb, FALSE>>
      [] cb.state = "half-open" ->
            IF cb.halfOpenRequests >= HalfOpenMaxRequests
            THEN <<cb, FALSE>>
            ELSE <<[cb EXCEPT !.halfOpenRequests = cb.halfOpenRequests + 1], TRUE>>

\* An onFailure that leaves a half-open breaker half-open.
onFailureKeepsHalfOpen(cb, t) ==
    LET c == [cb EXCEPT !.failures = Sat(cb.failures + 1, MaxFailures),
                        !.lastFailureTime = t,
                        !.successes = 0]
    IN  CASE c.state = "closed" ->
                IF c.failures >= MaxFailures THEN [c EXCEPT !.state = "open"] ELSE c
          [] OTHER -> c

\* CircuitBreaker.onFailure at time t.
onFailure(cb, t) ==
    LET c == [cb EXCEPT !.failures = Sat(cb.failures + 1, MaxFailures),
                        !.lastFailureTime = t,
                        !.successes = 0]
    IN  CASE c.state = "closed" ->
                IF c.failures >= MaxFailures THEN [c EXCEPT !.state = "open"] ELSE c
          [] c.state = "half-open" ->
                [c EXCEPT !.state = "open", !.halfOpenRequests = 0]
          [] OTHER -> c

\* onSuccess without the reset of the failure count.
onSuccessKeepsFailures(cb) ==
    LET c == [cb EXCEPT !.successes = Sat(cb.successes + 1, HalfOpenMaxRequests)]
    IN  CASE c.state = "half-open" ->
                IF c.successes >= HalfOpenMaxRequests
                THEN [c EXCEPT !.state = "closed", !.failures = 0,
                               !.successes = 0, !.halfOpenRequests = 0]
                ELSE c
          [] OTHER -> c

\* CircuitBreaker.onSuccess.
onSuccess(cb) ==
    LET c == [cb EXCEPT !.successes = Sat(cb.successes + 1, HalfOpenMaxRequests)]
    IN  CASE c.state = "closed" -> [c EXCEPT !.failures = 0]
          [] c.state = "half-open" ->
                IF c.successes >= HalfOpenMaxRequests
                THEN [c EXCEPT !.state = "closed", !.failures = 0,
                               !.successes = 0, !.halfOpenRequests = 0]
                ELSE c
          [] OTHER -> c

\* CircuitBreaker.afterRequest(err) at time t.
afterRequest(cb, ok, t) == IF ok THEN onSuccess(cb) ELSE onFailure(cb, t)

\* CircuitBreaker.Reset.
Reset(cb) ==
    [cb EXCEPT !.state = "closed", !.failures = 0, !.successes = 0,
               !.halfOpenRequests = 0]

\* APIGateway.getCircuitBreaker: the breaker map with the server's breaker
\* created on first use.
NoBreaker ==
    [state |-> "none", failures |-> 0, successes |-> 0,
     lastFailureTime |-> 0, halfOpenRequests |-> 0]
getCircuitBreaker(cbs, s) ==
    IF cbs[s] # NoBreaker THEN cbs ELSE [cbs EXCEPT ![s] = NewCircuitBreaker]

\* retry.IsRetryable applied to the error kinds of the model: transport
\* errors ("connection refused", "connection reset", "deadline exceeded")
\* are retried, status errors of the chunk server are not.
IsRetryable(err) == err = "transport"

\* ------------------------------------------------------------------ state
VARIABLES
    files,      \* table files: file id -> row
    chunks,     \* table chunks: set of rows
    sessions,   \* table upload_sessions: set of rows
    disk,       \* per chunk server: chunk id -> chunk file under dataDir
    alive,      \* per chunk server: the process is up and serving
    ring,       \* APIGateway.HashRing
    clients,    \* keys of APIGateway.StorageClients
    breakers,   \* APIGateway.CircuitBreakers
    up,         \* per file id: the UploadFile request that minted it
    dl,         \* the DownloadFile request in flight
    job,        \* the CleanupJob goroutine
    now,        \* wall clock, in ticks
    faults,     \* environment events so far
    rpc,        \* chunk server: the last stream of a direct client and its reply
    storage_servers, \* table storage_servers: server id -> row
    hb,         \* per chunk server: its heartbeat goroutine
    refresh,    \* the gateway's hash ring refresh loop
    conns,      \* transport state of the gateway's connections, reconnect in progress
    shell,      \* CircuitBreaker.Execute calls in flight on one breaker, and their record
    rt,         \* one retry.Do call
    lk,         \* HashRing.mu and the calls on the ring that are inside a method
    del         \* the DeleteFile request in flight

vars == <<files, chunks, sessions, disk, alive, ring, clients, breakers,
          up, dl, job, now, faults, rpc, storage_servers, hb, refresh, conns,
          shell, rt, lk, del>>
liveVars == <<storage_servers, hb, refresh, conns>>
shellVars == <<shell, rt, lk, del>>

\* ------------------------------------------------------- metadata store
NoFile ==
    [exists |-> FALSE, upload_status |-> "none", total_size |-> 0,
     checksum |-> NoChecksum, created_at |-> 0]
NoChunkFile == [present |-> FALSE, data |-> <<>>]
ChunkFile(data) == [present |-> TRUE, data |-> data]

\* PostgresStorage.CreateFile: the inserted row (checksum stays NULL).
CreateFile(S, t) ==
    [exists |-> TRUE, upload_status |-> "pending", total_size |-> S,
     checksum |-> NoChecksum, created_at |-> t]

\* PostgresStorage.UpdateFileStatus: UPDATE files SET upload_status = $1.
\* `ok` is whether the statement reaches the database and commits (the
\* context is live and the database answers); a missing row is ErrNotFound.
UpdateFileStatus(fs, f, status, ok) ==
    IF ok /\ fs[f].exists THEN [fs EXCEPT ![f].upload_status = status] ELSE fs
UpdateFileStatusErr(fs, f, ok) == ~(ok /\ fs[f].exists)

\* PostgresStorage.CreateChunksBatch: one implicit transaction inserting every
\* queued chunk with the literal status 'pending'.  It fails as a whole when
\* the file row is gone (foreign key), a size is not positive (CHECK) or a
\* (file_id, chunk_number) pair exists already (UNIQUE).
BatchRows(rows) ==
    { [rows[k] EXCEPT !.status = "pending"] : k \in 1..Len(rows) }
CreateChunksBatchOk(fs, cs, rows) ==
    \A k \in 1..Len(rows) :
        /\ fs[rows[k].file_id].exists
        /\ rows[k].chunk_size > 0
        /\ ~\E c \in cs : /\ c.file_id = rows[k].file_id
                          /\ c.chunk_number = rows[k].chunk_number
CreateChunksBatch(cs, rows) == cs \cup BatchRows(rows)

\* PostgresStorage.GetChunksByFileID: the file's rows ORDER BY chunk_number.
RECURSIVE SortRows(_)
SortRows(rows) ==
    IF rows = {} THEN <<>>
    ELSE LET r == CHOOSE x \in rows : \A y \in rows : x.chunk_number <= y.chunk_number
         IN  <<r>> \o SortRows(rows \ {r})
GetChunksByFileID(cs, f) == SortRows({ c \in cs : c.file_id = f })

\* PostgresStorage.DeleteFile: DELETE FROM files, cascading to chunks and
\* upload_sessions through their foreign keys.
DeleteFileRows(fs, f) == [fs EXCEPT ![f] = NoFile]
DeleteFileChunks(cs, f) == { c \in cs : c.file_id # f }
DeleteFileSessions(ss, f) == { x \in ss : x.file_id # f }

\* --------------------------------------------------------- chunk server
\* PutChunk without the os.Remove of the mismatch branch.
PutChunkKeepsFile(cf, data, expected, k, complete) ==
    LET got == FramesPrefix(data, k)
    IN  IF k = 0 THEN <<cf, IF complete THEN "InvalidArgument" ELSE "Internal">>
        ELSE IF ~complete THEN <<ChunkFile(got), "Internal">>
        ELSE IF expected # NoChecksum /\ Sha256Hex(got) # expected
             THEN <<ChunkFile(got), "DataLoss">>
        ELSE <<ChunkFile(got), "OK">>

\* StorageServer.PutChunk on the chunk file `cf` when the stream delivers the
\* first k frames of `data` with the expected digest and then either ends
\* (complete) or breaks: <<chunk file left at the final path, status>>.
\* The file is created (truncated) at the final path by the first frame and
\* written as frames arrive.
PutChunk(cf, data, expected, k, complete) ==
    LET got == FramesPrefix(data, k)
    IN  IF k = 0
        THEN <<cf, IF complete THEN "InvalidArgument" ELSE "Internal">>
        ELSE IF ~complete
        THEN <<ChunkFile(got), "Internal">>
        ELSE IF expected # NoChecksum /\ Sha256Hex(got) # expected
        THEN <<NoChunkFile, "DataLoss">>
        ELSE <<ChunkFile(got), "OK">>

\* StorageServer.GetChunk: the status and the bytes streamed.  The digest of
\* the file is computed and compared with nothing.
GetChunk(cf) ==
    IF ~cf.present THEN <<"NotFound", <<>>>> ELSE <<"OK", cf.data>>

\* StorageServer.DeleteChunk: <<chunk file left, status>>.
DeleteChunk(cf) ==
    IF ~cf.present THEN <<cf, "NotFound">> ELSE <<NoChunkFile, "OK">>

\* No direct client stream yet.
NoRpc == [op |-> "none", server |-> NoServer, chunk_id |-> <<>>, data |-> <<>>,
          expected |-> NoChecksum, frames |-> 0, complete |-> FALSE, status |-> "none"]

\* -------------------------------------------------------------- faults
\* A storage_servers row as CreateStorageServer leaves it at time t.
ServerRow(t) == [registered |-> TRUE, status |-> "active", last_heartbeat |-> t]
NoServerRow == [registered |-> FALSE, status |-> "none", last_heartbeat |-> 0]
\* The heartbeat goroutine of a chunk server: running, or stopped since `ceased`.
Beating == [running |-> TRUE, ceased |-> 0, beat |-> 0]
\* The refresh loop: the time of the ticker's next tick and what the last
\* RefreshHashRing saw and did.
NewRefreshLoop == [next |-> RefreshInterval, ran |-> FALSE, ok |-> FALSE, active |-> {}]
\* No reconnectToStorageServer call in progress.
NoReconnect == [pc |-> "idle", server |-> NoServer]
\* Every connection Ready since the start, no reconnect in progress.
NoConns ==
    [state |-> [s \in Servers |-> "Ready"], since |-> [s \in Servers |-> 0],
     rc |-> NoReconnect]
\* No Execute call made yet.
NoCalls ==
    [old |-> 0, cur |-> 0, admitted |-> 0, good |-> 0, run |-> 0,
     opened |-> FALSE, openedAt |-> 0, calls |-> 0, last |-> "none"]
\* No retry.Do call made yet.
NoRetry ==
    [pc |-> "idle", attempt |-> 0, backoff |-> 0, wake |-> 0, executed |-> 0,
     ctxDone |-> FALSE, afterCancel |-> 0, slept |-> FALSE, result |-> "none"]

\* HashRing.mu free, no call inside a method of the ring.  lk.version is the
\* ring as the last finished mutation left it, lk.rd.seen the answers of
\* GetServer on the rings that have stood since the lookup in progress was
\* called.
NoLock ==
    [mu |-> [w |-> FALSE, r |-> 0],
     wr |-> [pc |-> "idle", op |-> "none", server |-> NoServer],
     rd |-> [pc |-> "idle", key |-> 0, idx |-> 0, result |-> NoServer, seen |-> {}],
     version |-> NewHashRing]
\* The CleanupJob before its first cycle.  found, cleanedCount and errorCount
\* are the numbers cleanupExpiredSessions logs; failedAt is the place in the
\* cycle of the first session whose handling met a failure.
IdleJob ==
    [pc |-> "idle", queue |-> <<>>, next |-> 0, found |-> 0, cleanedCount |-> 0,
     errorCount |-> 0, failedAt |-> 0]
\* No DeleteFile request made yet.
IdleDelete ==
    [pc |-> "idle", file |-> 0, rows |-> <<>>, i |-> 0, deletedChunks |-> 0,
     failedChunks |-> 0, code |-> 0, had |-> 0, found |-> FALSE,
     ctxDone |-> FALSE, dbFault |-> FALSE]

B(x) == IF x THEN 1 ELSE 0
Budget(n) == faults + n <= MaxFaults

\* ------------------------------------------------------------ UploadFile
IdleUpload ==
    [pc |-> "idle", size |-> 0, i |-> 0, server |-> NoServer, attempt |-> 0,
     chunks |-> <<>>, hasher |-> <<>>, ctxDone |-> FALSE, code |-> 0,
     checksum |-> NoChecksum, inserted |-> FALSE, created_at |-> 0,
     body |-> 0]

Respond(u, code) == [u EXCEPT !.pc = "done", !.code = code]

\* The error exits that first call UpdateFileStatus(ctx, id, "failed") and
\* ignore its result.
UploadFail(f, code, dbFault) ==
    /\ files' = UpdateFileStatus(files, f, "failed", ~up[f].ctxDone /\ ~dbFault)
    /\ up' = [up EXCEPT ![f] = Respond(up[f], code)]

\* The byte counts a request body may deliver for a declared size S.
BodyLens(S) == IF S \in 1..maxFileSize THEN 0..S ELSE {S}

\* UploadFile up to CreateFile: validation, then the pending file row.
UploadBegin(f, S) ==
    /\ up[f].pc = "idle"
    /\ \A g \in FileIds : g < f => up[g].pc # "idle"
    /\ \E dbFault \in BOOLEAN, L \in BodyLens(S) :
        /\ dbFault => L = S
        /\ Budget(B(dbFault) + B(L < S))
        /\ faults' = faults + B(dbFault) + B(L < S)
        /\ IF S > maxFileSize
           THEN /\ ~dbFault
                /\ up' = [up EXCEPT ![f] = Respond([@ EXCEPT !.size = S], 413)]
                /\ UNCHANGED files
           ELSE IF S = 0
           THEN /\ ~dbFault
                /\ up' = [up EXCEPT ![f] = Respond([@ EXCEPT !.size = S], 400)]
                /\ UNCHANGED files
           ELSE IF dbFault
           THEN /\ up' = [up EXCEPT ![f] = Respond([@ EXCEPT !.size = S], 500)]
                /\ UNCHANGED files
           ELSE IF CalculateChunkBoundaries(S, numChunks) = <<>>
           THEN /\ files' = [files EXCEPT ![f] = CreateFile(S, now)]
                /\ up' = [up EXCEPT ![f] =
                            Respond([@ EXCEPT !.size = S, !.body = L, !.inserted = TRUE,
                                              !.created_at = now], 500)]
           ELSE /\ files' = [files EXCEPT ![f] = CreateFile(S, now)]
                /\ up' = [up EXCEPT ![f] = [@ EXCEPT !.pc = "chunk", !.size = S,
                                                     !.body = L, !.inserted = TRUE,
                                                     !.created_at = now]]
    /\ UNCHANGED <<chunks, sessions, disk, alive, ring, rpc, liveVars, shellVars, clients, breakers, dl, job, now>>

\* One iteration of the chunk loop up to cb.Execute's admission: read the
\* chunk, fold it into the file hash, place it on the ring, get the client
\* and ask the breaker.
UploadPlace(f) ==
    LET u == up[f]
        data == ChunkData(u.size, u.body, u.i)
        s == GetServer(ring, XxHashKey(<<f, u.i>>))
    IN  /\ u.pc = "chunk"
        /\ \E readFault, dbFault \in BOOLEAN :
            /\ Budget(B(readFault) + B(dbFault))
            /\ faults' = faults + B(readFault) + B(dbFault)
            /\ IF readFault
               THEN UploadFail(f, 500, dbFault) /\ UNCHANGED breakers
               ELSE IF s = NoServer \/ s \notin clients
               THEN UploadFail(f, 503, dbFault) /\ UNCHANGED breakers
               ELSE LET cbs == getCircuitBreaker(breakers, s)
                        adm == beforeRequest(cbs[s], now)
                    IN  /\ breakers' = [cbs EXCEPT ![s] = adm[1]]
                        /\ IF ~adm[2]
                           THEN UploadFail(f, 500, dbFault)
                           ELSE /\ ~dbFault
                                /\ up' = [up EXCEPT ![f] =
                                            [u EXCEPT !.pc = "put", !.server = s,
                                                      !.attempt = 0,
                                                      !.hasher = u.hasher \o data]]
                                /\ UNCHANGED files
        /\ UNCHANGED <<chunks, sessions, disk, alive, ring, rpc, liveVars, shellVars, clients, dl, job, now>>

\* One execution of UploadChunkToServer inside retry.Do inside cb.Execute.
\* The stream delivers k frames; `complete` says the server saw the end of
\* the stream; err is what the transport reports to the client ("none" when
\* the server's reply arrives).  A failed attempt is retried by retry.Do
\* while the error is retryable and attempts remain; the final outcome goes
\* through afterRequest.
UploadPut(f) ==
    LET u == up[f]
        data == ChunkData(u.size, u.body, u.i)
        cid == <<f, u.i>>
        s == u.server
        n == NumFrames(data)
    IN  /\ u.pc = "put"
        /\ \E k \in 0..n, complete, dbFault \in BOOLEAN,
              err \in {"none", "transport", "other", "cancelled"} :
            LET res == PutChunk(disk[s][cid], data, Sha256Hex(data), k, complete)
                rpcErr == IF err # "none" THEN err
                          ELSE IF res[2] = "OK" THEN "none" ELSE "other"
                injected == err \in {"transport", "other"} /\ alive[s] /\ ~u.ctxDone
                again == IsRetryable(rpcErr) /\ u.attempt < MaxRetries /\ ~u.ctxDone
            IN  /\ u.ctxDone => err = "cancelled" /\ k = 0 /\ ~complete
                /\ ~u.ctxDone /\ ~alive[s] => err = "transport" /\ k = 0 /\ ~complete
                /\ ~u.ctxDone /\ alive[s] =>
                      /\ err # "cancelled"
                      /\ err = "none" => k = n /\ complete
                      /\ complete => k = n
                /\ Budget(B(injected) + B(dbFault))
                /\ faults' = faults + B(injected) + B(dbFault)
                /\ disk' = [disk EXCEPT ![s][cid] = res[1]]
                /\ IF rpcErr = "none"
                   THEN /\ ~dbFault
                        /\ breakers' = [breakers EXCEPT ![s] = afterRequest(@, TRUE, now)]
                        /\ up' = [up EXCEPT ![f] =
                                    [u EXCEPT !.pc = IF u.i + 1 < numChunks THEN "chunk" ELSE "batch",
                                              !.i = u.i + 1,
                                              !.chunks = Append(u.chunks,
                                                 [file_id |-> f, chunk_number |-> u.i,
                                                  chunk_id |-> cid, storage_server_id |-> s,
                                                  chunk_size |-> Len(data),
                                                  chunk_hash |-> Sha256Hex(data),
                                                  status |-> "completed"])]]
                        /\ UNCHANGED files
                   ELSE IF again
                   THEN /\ ~dbFault
                        /\ up' = [up EXCEPT ![f] = [u EXCEPT !.attempt = u.attempt + 1]]
                        /\ UNCHANGED <<files, breakers>>
                   ELSE /\ breakers' = [breakers EXCEPT ![s] = afterRequest(@, FALSE, now)]
                        /\ UploadFail(f, 500, dbFault)
        /\ UNCHANGED <<chunks, sessions, alive, ring, rpc, liveVars, shellVars, clients, dl, job, now>>

\* CreateChunksBatch after the loop, then the file digest.
UploadSaveChunks(f) ==
    LET u == up[f]
    IN  /\ u.pc = "batch"
        /\ \E batchFault, dbFault \in BOOLEAN :
            LET ok == ~batchFault /\ ~u.ctxDone /\ CreateChunksBatchOk(files, chunks, u.chunks)
            IN  /\ Budget(B(batchFault) + B(dbFault))
                /\ faults' = faults + B(batchFault) + B(dbFault)
                /\ IF ok
                   THEN /\ ~dbFault
                        /\ chunks' = CreateChunksBatch(chunks, u.chunks)
                        /\ up' = [up EXCEPT ![f] = [u EXCEPT !.pc = "finalize",
                                                             !.checksum = Sha256Hex(u.hasher)]]
                        /\ UNCHANGED files
                   ELSE /\ UploadFail(f, 500, dbFault)
                        /\ UNCHANGED chunks
        /\ UNCHANGED <<sessions, disk, alive, ring, rpc, liveVars, shellVars, clients, breakers, dl, job, now>>

\* UpdateFileStatus(ctx, id, "completed") and the response.
UploadFinalize(f) ==
    LET u == up[f]
    IN  /\ u.pc = "finalize"
        /\ \E dbFault \in BOOLEAN :
            LET ok == ~dbFault /\ ~u.ctxDone
            IN  /\ Budget(B(dbFault))
                /\ faults' = faults + B(dbFault)
                /\ files' = UpdateFileStatus(files, f, "completed", ok)
                /\ up' = [up EXCEPT ![f] =
                            Respond(u, IF UpdateFileStatusErr(files, f, ok) THEN 500 ELSE 201)]
        /\ UNCHANGED <<chunks, sessions, disk, alive, ring, rpc, liveVars, shellVars, clients, breakers, dl, job, now>>

\* The request context ends (client gone, or the 5 minute uploadTimeout).
UploadCancel(f) ==
    /\ up[f].pc \in {"chunk", "put", "batch", "finalize"}
    /\ ~up[f].ctxDone
    /\ Budget(1)
    /\ faults' = faults + 1
    /\ up' = [up EXCEPT ![f].ctxDone = TRUE]
    /\ UNCHANGED <<files, chunks, sessions, disk, alive, ring, rpc, liveVars, shellVars, clients, breakers, dl, job, now>>

\* ---------------------------------------------------------- DownloadFile
IdleDownload ==
    [pc |-> "idle", file |-> 0, rows |-> <<>>, size |-> 0, i |-> 1, attempt |-> 0,
     written |-> <<>>, code |-> 0, aborted |-> FALSE, count |-> 0,
     server |-> NoServer]

\* The response writer: Content-Length is declared as the file's total size
\* and a write that would pass it is refused.  Of the first k frames of
\* `data`, the number the writer accepts after `written`.
AcceptedFrames(written, data, k, size) ==
    LET fit == { j \in 0..k : Len(written) + Len(FramesPrefix(data, j)) <= size }
    IN  CHOOSE j \in fit : \A m \in fit : m <= j

\* c.AbortWithStatusJSON: before any body byte the status is still free and
\* the error response replaces the download; afterwards the JSON error body
\* is written behind the bytes already sent.
Abort(d, code) ==
    IF d.written = <<>>
    THEN [d EXCEPT !.pc = "done", !.code = code, !.aborted = TRUE]
    ELSE [d EXCEPT !.pc = "done", !.aborted = TRUE,
                   !.written = IF Len(d.written) < d.size
                               THEN Append(d.written, JsonByte) ELSE d.written]

\* DownloadFile up to the headers: GetFileByID, the state check.
DownloadBegin(f) ==
    /\ dl.pc \in {"idle", "done"}
    /\ dl.count < MaxDownloads
    /\ \E dbFault \in BOOLEAN :
        /\ Budget(B(dbFault))
        /\ faults' = faults + B(dbFault)
        /\ dl' = LET fresh == [IdleDownload EXCEPT !.file = f, !.count = dl.count + 1]
                 IN
                 IF dbFault \/ ~files[f].exists
                 THEN [fresh EXCEPT !.pc = "done", !.code = 404, !.aborted = TRUE]
                 ELSE IF files[f].upload_status # "completed"
                 THEN [fresh EXCEPT !.pc = "done", !.code = 409, !.aborted = TRUE]
                 ELSE [fresh EXCEPT !.pc = "chunk", !.code = 200,
                                    !.rows = GetChunksByFileID(chunks, f),
                                    !.size = files[f].total_size]
    /\ UNCHANGED <<files, chunks, sessions, disk, alive, ring, rpc, liveVars, shellVars, clients, breakers, up, job, now>>

\* A download that looks the chunk up in the ring as an upload does.
DownloadServerFromRing(row) == GetServer(ring, XxHashKey(row.chunk_id))

\* DownloadFile: the server asked for a chunk is the one in the chunk's row.
DownloadServer(row) == row.storage_server_id

\* One iteration of the chunk loop up to cb.Execute's admission.
DownloadPlace ==
    /\ dl.pc = "chunk"
    /\ IF dl.i > Len(dl.rows)
       THEN dl' = [dl EXCEPT !.pc = "done"] /\ UNCHANGED breakers
       ELSE LET s == DownloadServer(dl.rows[dl.i])
                cbs == getCircuitBreaker(breakers, s)
                adm == beforeRequest(cbs[s], now)
            IN  IF s \notin clients
                THEN dl' = Abort(dl, 503) /\ UNCHANGED breakers
                ELSE /\ breakers' = [cbs EXCEPT ![s] = adm[1]]
                     /\ dl' = IF adm[2]
                              THEN [dl EXCEPT !.pc = "get", !.attempt = 0, !.server = s]
                              ELSE Abort(dl, 500)
    /\ UNCHANGED <<files, chunks, sessions, disk, alive, ring, rpc, liveVars, shellVars, clients, up, job, now, faults>>

\* One execution of downloadChunkFromServer inside retry.Do inside
\* cb.Execute: the frames received are written to the response as they
\* arrive; a failed attempt is retried from the chunk's first frame.
DownloadGet ==
    LET row == dl.rows[dl.i]
        s == dl.server
        res == GetChunk(disk[s][row.chunk_id])
        n == NumFrames(res[2])
    IN  /\ dl.pc = "get"
        /\ \E k \in 0..n, err \in {"none", "transport", "other"} :
            LET acc == AcceptedFrames(dl.written, res[2], k, dl.size)
                rpcErr == IF acc < k THEN "other"
                          ELSE IF err # "none" THEN err
                          ELSE IF res[1] = "OK" THEN "none" ELSE "other"
                injected == err # "none" /\ alive[s]
                again == IsRetryable(rpcErr) /\ dl.attempt < MaxRetries
                d == [dl EXCEPT !.written = dl.written \o FramesPrefix(res[2], acc)]
            IN  /\ ~alive[s] => err = "transport" /\ k = 0
                /\ alive[s] /\ err = "none" => k = n
                /\ Budget(B(injected))
                /\ faults' = faults + B(injected)
                /\ IF rpcErr = "none"
                   THEN /\ breakers' = [breakers EXCEPT ![s] = afterRequest(@, TRUE, now)]
                        /\ dl' = [d EXCEPT !.pc = "chunk", !.i = dl.i + 1]
                   ELSE IF again
                   THEN /\ dl' = [d EXCEPT !.attempt = dl.attempt + 1]
                        /\ UNCHANGED breakers
                   ELSE /\ breakers' = [breakers EXCEPT ![s] = afterRequest(@, FALSE, now)]
                        /\ dl' = Abort(d, 500)
        /\ UNCHANGED <<files, chunks, sessions, disk, alive, ring, rpc, liveVars, shellVars, clients, up, job, now>>

\* ----------------------------------------------------------- sessions
SessionIds == 1..MaxSessions

\* PostgresStorage.CreateUploadSession: an active row expiring ttl from now.
CreateUploadSession(ss, sid, f, t, ttl) ==
    ss \cup {[session_id |-> sid, file_id |-> f, status |-> "active", expires_at |-> t + ttl]}

\* PostgresStorage.GetExpiredSessions, ORDER BY expires_at.
RECURSIVE SortSessions(_)
SortSessions(ss) ==
    IF ss = {} THEN <<>>
    ELSE LET x == CHOOSE y \in ss : \A z \in ss : y.expires_at <= z.expires_at
         IN  <<x>> \o SortSessions(ss \ {x})

GetExpiredSessions(ss, t) ==
    SortSessions({ x \in ss : x.expires_at < t /\ x.status = "active" })

DeleteUploadSession(ss, sid) == { x \in ss : x.session_id # sid }

\* The storage layer's session API, used by no request handler: a session
\* row exists only when a caller of the storage layer creates one.
NewUploadSession(f) ==
    /\ files[f].exists
    /\ Budget(1)
    /\ faults' = faults + 1
    /\ \E sid \in SessionIds :
        /\ \A x \in sessions : x.session_id # sid
        /\ \A o \in SessionIds : o < sid => \E x \in sessions : x.session_id = o
        /\ sessions' = CreateUploadSession(sessions, sid, f, now, SessionTTL)
    /\ UNCHANGED <<files, chunks, disk, alive, ring, rpc, liveVars, shellVars, clients, breakers, up, dl, job, now>>

\* ---------------------------------------------------------- CleanupJob
\* CleanupJob.run: at start and then on every tick of the ticker,
\* cleanupExpiredSessions reads the expired sessions.
CleanupStart ==
    /\ job.pc = "idle"
    /\ now >= job.next
    /\ \E dbFault \in BOOLEAN :
        LET found == IF dbFault THEN <<>> ELSE GetExpiredSessions(sessions, now)
        IN  /\ Budget(B(dbFault))
            /\ faults' = faults + B(dbFault)
            /\ job' = [pc |-> IF found = <<>> THEN "idle" ELSE "run",
                       queue |-> found, next |-> job.next + CleanupInterval,
                       found |-> Len(found), cleanedCount |-> 0, errorCount |-> 0,
                       failedAt |-> 0]
    /\ UNCHANGED <<files, chunks, sessions, disk, alive, ring, rpc, liveVars, shellVars, clients, breakers, up, dl, now>>

\* CleanupJob.deleteChunkFromServer over the rows of a file: the chunk files
\* left on server s.  A server without a client is skipped, a failed call is
\* logged.
DeleteChunksFromServer(d, rows, s, rpcOk) ==
    [cid \in ChunkIds |->
        IF /\ \E k \in 1..Len(rows) : rows[k].chunk_id = cid /\ rows[k].storage_server_id = s
           /\ s \in clients /\ alive[s] /\ rpcOk
        THEN DeleteChunk(d[s][cid])[1]
        ELSE d[s][cid]]

\* A loop that gives up at the first session whose cleanup returns an error.
AfterSessionStop(queue, err) == IF err THEN <<>> ELSE Tail(queue)
\* cleanupExpiredSessions: the loop counts what cleanupSession returned and
\* goes on with the next session.
AfterSession(queue, err) == Tail(queue)

\* CleanupJob.cleanupSession for the next session found.
cleanupSession ==
    /\ job.pc = "run"
    /\ \E fault \in {"none", "rows", "rpc", "file", "session"} :
        LET x == Head(job.queue)
            f == x.file_id
            rows == GetChunksByFileID(chunks, f)
            fileGone == fault # "file" /\ files[f].exists
        IN  /\ Budget(B(fault # "none"))
            /\ faults' = faults + B(fault # "none")
            /\ job' = LET rest == AfterSession(job.queue, fault = "rows")
                       IN  [job EXCEPT
                              !.queue = rest,
                              !.pc = IF rest = <<>> THEN "idle" ELSE "run",
                              !.cleanedCount = @ + B(fault # "rows"),
                              !.errorCount = @ + B(fault = "rows"),
                              !.failedAt =
                                 IF fault # "none" /\ @ = 0
                                 THEN job.cleanedCount + job.errorCount + 1
                                 ELSE @]
            /\ IF fault = "rows"
               THEN UNCHANGED <<files, chunks, sessions, disk>>
               ELSE /\ disk' = [s \in Servers |->
                                  DeleteChunksFromServer(disk, rows, s, fault # "rpc")]
                    /\ files' = IF fileGone THEN DeleteFileRows(files, f) ELSE files
                    /\ chunks' = IF fileGone THEN DeleteFileChunks(chunks, f) ELSE chunks
                    /\ sessions' =
                         LET ss == IF fileGone THEN DeleteFileSessions(sessions, f)
                                   ELSE sessions
                         IN  IF fault = "session" THEN ss
                             ELSE DeleteUploadSession(ss, x.session_id)
    /\ UNCHANGED <<alive, ring, rpc, liveVars, shellVars, clients, breakers, up, dl, now>>

\* ------------------------------------------------------------ environment
\* Time passes; the cleanup ticker fires before the next tick.
Tick ==
    /\ now < MaxTime
    /\ job.pc = "idle"
    /\ now < job.next
    /\ now' = now + 1
    /\ UNCHANGED <<files, chunks, sessions, disk, alive, ring, rpc, liveVars, shellVars, clients, breakers, up, dl, job, faults>>

\* A byte of a stored chunk file is altered on disk.
Corrupt(s, cid, j) ==
    /\ disk[s][cid].present
    /\ j \in 1..Len(disk[s][cid].data)
    /\ disk[s][cid].data[j] # CorruptByte
    /\ Budget(1)
    /\ faults' = faults + 1
    /\ disk' = [disk EXCEPT ![s][cid].data[j] = CorruptByte]
    /\ UNCHANGED <<files, chunks, sessions, alive, ring, rpc, liveVars, shellVars, clients, breakers, up, dl, job, now>>

\* A chunk server process stops or comes back; its data directory stays.
ServerStop(s) ==
    /\ alive[s]
    /\ Budget(1)
    /\ faults' = faults + 1
    /\ alive' = [alive EXCEPT ![s] = FALSE]
    /\ UNCHANGED <<files, chunks, sessions, disk, ring, rpc, liveVars, shellVars, clients, breakers, up, dl, job, now>>

ServerStart(s) ==
    /\ ~alive[s]
    /\ alive' = [alive EXCEPT ![s] = TRUE]
    /\ UNCHANGED <<files, chunks, sessions, disk, ring, rpc, liveVars, shellVars, clients, breakers, up, dl, job, now, faults>>

\* ------------------------------------------------------- specification
Init ==
    /\ files = [f \in FileIds |-> NoFile]
    /\ chunks = {}
    /\ sessions = {}
    /\ disk = [s \in Servers |-> [cid \in ChunkIds |-> NoChunkFile]]
    /\ alive = [s \in Servers |-> TRUE]
    /\ ring \in InitialRings({NewHashRing}, 1)
    /\ clients = Servers
    /\ breakers = [s \in Servers |-> NoBreaker]
    /\ up = [f \in FileIds |-> IdleUpload]
    /\ dl = IdleDownload
    /\ job = IdleJob
    /\ now = 0
    /\ faults = 0
    /\ rpc = NoRpc
    /\ storage_servers = [s \in Servers |-> ServerRow(0)]
    /\ hb = [s \in Servers |-> Beating]
    /\ refresh = NewRefreshLoop
    /\ conns = NoConns
    /\ shell = NoCalls
    /\ rt = NoRetry
    /\ lk = NoLock
    /\ del = IdleDelete

Next ==
    \/ \E f \in FileIds, S \in Sizes : UploadBegin(f, S)
    \/ \E f \in FileIds : UploadPlace(f)
    \/ \E f \in FileIds : UploadPut(f)
    \/ \E f \in FileIds : UploadSaveChunks(f)
    \/ \E f \in FileIds : UploadFinalize(f)
    \/ \E f \in FileIds : UploadCancel(f)
    \/ \E f \in FileIds : DownloadBegin(f)
    \/ DownloadPlace
    \/ DownloadGet
    \/ \E f \in FileIds : NewUploadSession(f)
    \/ CleanupStart
    \/ cleanupSession
    \/ Tick
    \/ \E s \in Servers, cid \in ChunkIds, j \in 1..MaxSize : Corrupt(s, cid, j)
    \/ \E s \in Servers : ServerStop(s)
    \/ \E s \in Servers : ServerStart(s)

Spec == Init /\ [][Next]_vars

\* ------------------------------------------- chunk server, direct client
\* One chunk server answering a client that opens its streams directly.
PutServer == 1
PutIds == { <<1, 0>>, <<1, 1>> }
RECURSIVE SeqsUpTo(_, _)
SeqsUpTo(A, n) ==
    IF n = 0 THEN { <<>> }
    ELSE LET shorter == SeqsUpTo(A, n - 1)
         IN  shorter \cup { Append(q, a) : q \in { r \in shorter : Len(r) = n - 1 }, a \in A }
PutData == SeqsUpTo(1..MaxPutByte, MaxPutLen) \ { <<>> }
PutChecksums == { NoChecksum } \cup { Sha256Hex(d) : d \in PutData }

OtherUnchanged ==
    UNCHANGED <<files, chunks, sessions, alive, ring, clients, breakers, up, dl,
                job, now, faults, liveVars, shellVars>>

\* A PutChunk stream of `data` with checksum `expected` in its first message,
\* of which k frames reach the server; `complete` when the stream then ends
\* with io.EOF, otherwise Recv fails.
ClientPut(cid, data, expected, k, complete) ==
    /\ alive[PutServer]
    /\ k \in 0..NumFrames(data)
    /\ complete => k = NumFrames(data) \/ k = 0
    /\ LET r == PutChunk(disk[PutServer][cid], data, expected, k, complete)
       IN  /\ disk' = [disk EXCEPT ![PutServer][cid] = r[1]]
           /\ rpc' = [op |-> "put", server |-> PutServer, chunk_id |-> cid,
                      data |-> FramesPrefix(data, k), expected |-> expected,
                      frames |-> k, complete |-> complete, status |-> r[2]]
    /\ OtherUnchanged

ClientGet(cid) ==
    /\ alive[PutServer]
    /\ LET r == GetChunk(disk[PutServer][cid])
       IN  rpc' = [op |-> "get", server |-> PutServer, chunk_id |-> cid,
                   data |-> r[2], expected |-> NoChecksum, frames |-> NumFrames(r[2]),
                   complete |-> TRUE, status |-> r[1]]
    /\ UNCHANGED disk
    /\ OtherUnchanged

ClientDelete(cid) ==
    /\ alive[PutServer]
    /\ LET r == DeleteChunk(disk[PutServer][cid])
       IN  /\ disk' = [disk EXCEPT ![PutServer][cid] = r[1]]
           /\ rpc' = [op |-> "delete", server |-> PutServer, chunk_id |-> cid,
                      data |-> <<>>, expected |-> NoChecksum, frames |-> 0,
                      complete |-> TRUE, status |-> r[2]]
    /\ OtherUnchanged

PutNext ==
    \/ \E cid \in PutIds, data \in PutData, expected \in PutChecksums,
          k \in 0..MaxPutLen, complete \in BOOLEAN :
            ClientPut(cid, data, expected, k, complete)
    \/ \E cid \in PutIds : ClientGet(cid)
    \/ \E cid \in PutIds : ClientDelete(cid)

PutSpec == Init /\ [][PutNext]_vars

\* ------------------------------------------------------- hash ring alone
\* A HashRing built by NewHashRing and driven by AddServer and RemoveServer
\* calls in any order; everything else stays as constructed.
RingServers == 1..MaxRingServers
KeyHashes == 0..(HashSpace - 1)

RingInit ==
    /\ files = [f \in FileIds |-> NoFile]
    /\ chunks = {}
    /\ sessions = {}
    /\ disk = [s \in Servers |-> [cid \in ChunkIds |-> NoChunkFile]]
    /\ alive = [s \in Servers |-> TRUE]
    /\ ring = NewHashRing
    /\ clients = Servers
    /\ breakers = [s \in Servers |-> NoBreaker]
    /\ up = [f \in FileIds |-> IdleUpload]
    /\ dl = IdleDownload
    /\ job = IdleJob
    /\ now = 0
    /\ faults = 0
    /\ rpc = NoRpc
    /\ storage_servers = [s \in Servers |-> ServerRow(0)]
    /\ hb = [s \in Servers |-> Beating]
    /\ refresh = NewRefreshLoop
    /\ conns = NoConns
    /\ shell = NoCalls
    /\ rt = NoRetry
    /\ lk = NoLock
    /\ del = IdleDelete

RingUnchanged ==
    UNCHANGED <<files, chunks, sessions, disk, alive, clients, breakers, up, dl,
                job, now, faults, rpc, liveVars, shellVars>>

RingAdd(s) ==
    /\ Len(ring.nodes) + VirtualNodes <= MaxRingNodes
    /\ ring' \in AddServer(ring, s)
    /\ RingUnchanged

RingRemove(s) ==
    /\ ring' = RemoveServer(ring, s)
    /\ RingUnchanged

RingNext ==
    \/ \E s \in RingServers : RingAdd(s)
    \/ \E s \in RingServers : RingRemove(s)

RingSpec == RingInit /\ [][RingNext]_vars

\* ------------------------------------------------ circuit breaker alone
\* The breaker of one server under Execute calls that overlap in time.  A
\* call is admitted by beforeRequest, runs fn outside the lock, and records
\* its result with afterRequest.  shell.old and shell.cur count the calls in
\* flight admitted before and during the current half-open period;
\* shell.admitted and shell.good count the admissions of the current
\* half-open period and the successes of calls admitted in it; shell.run
\* counts the failures recorded in a row while the breaker is closed.
ShellServer == 1
ShellUnchanged ==
    UNCHANGED <<files, chunks, sessions, disk, alive, ring, up, dl, job, rpc,
                liveVars, rt, lk, del>>

\* A request for the server up to fn: getStorageClient, getCircuitBreaker,
\* beforeRequest.
ShellBegin ==
    /\ shell.calls < MaxShellCalls
    /\ shell.old + shell.cur < MaxInflight
    /\ IF ShellServer \notin clients
       THEN /\ shell' = [shell EXCEPT !.calls = @ + 1, !.last = "not found"]
            /\ UNCHANGED breakers
       ELSE LET cb == getCircuitBreaker(breakers, ShellServer)[ShellServer]
                r == beforeRequest(cb, now)
            IN  /\ breakers' = [breakers EXCEPT ![ShellServer] = r[1]]
                /\ shell' =
                     IF ~r[2]
                     THEN [shell EXCEPT !.calls = @ + 1, !.last = "circuit open"]
                     ELSE IF cb.state = "open"
                     THEN [shell EXCEPT !.calls = @ + 1, !.last = "admitted",
                                        !.old = shell.old + shell.cur, !.cur = 1,
                                        !.admitted = 1, !.good = 0]
                     ELSE IF cb.state = "half-open"
                     THEN [shell EXCEPT !.calls = @ + 1, !.last = "admitted",
                                        !.cur = @ + 1, !.admitted = @ + 1]
                     ELSE [shell EXCEPT !.calls = @ + 1, !.last = "admitted",
                                        !.old = @ + 1]
    /\ UNCHANGED <<clients, now, faults>>
    /\ ShellUnchanged

\* fn of a call in flight returns and afterRequest records the result.
ShellEnd(ok, current) ==
    /\ IF current THEN shell.cur > 0 ELSE shell.old > 0
    /\ LET before == breakers[ShellServer]
           after == afterRequest(before, ok, now)
           left == (IF current THEN shell.cur - 1 ELSE shell.cur)
           rest == (IF current THEN shell.old ELSE shell.old - 1)
           leaves == before.state = "half-open" /\ after.state # "half-open"
       IN  /\ breakers' = [breakers EXCEPT ![ShellServer] = after]
           /\ shell' =
                [shell EXCEPT
                   !.last = IF ok THEN "success" ELSE "failure",
                   !.cur = IF leaves THEN 0 ELSE left,
                   !.old = IF leaves THEN rest + left ELSE rest,
                   !.good = IF current /\ ok THEN @ + 1 ELSE @,
                   !.run = IF before.state # "closed" THEN 0
                           ELSE IF ok THEN 0 ELSE @ + 1,
                   !.opened = IF after.state = "open" THEN TRUE ELSE @,
                   !.openedAt = IF before.state # "open" /\ after.state = "open"
                                THEN now ELSE @]
    /\ UNCHANGED <<clients, now, faults>>
    /\ ShellUnchanged

\* checkAndReconnectStorageServers finds the connection in a bad state:
\* reconnectToStorageServer drops the connection and dials again; when the
\* dial fails the connection stays dropped and the breaker is Reset.
ShellHealthCheck(dialOk) ==
    /\ ShellServer \in clients
    /\ ShellServer \in ring.servers
    /\ Budget(B(~dialOk))
    /\ faults' = faults + B(~dialOk)
    /\ IF dialOk
       THEN UNCHANGED <<clients, breakers, shell>>
       ELSE /\ clients' = clients \ {ShellServer}
            /\ breakers' = [breakers EXCEPT ![ShellServer] =
                               Reset(getCircuitBreaker(breakers, ShellServer)[ShellServer])]
            /\ shell' = [shell EXCEPT !.last = "reset", !.run = 0,
                                      !.old = shell.old + shell.cur, !.cur = 0]
    /\ UNCHANGED now
    /\ ShellUnchanged

ShellTick ==
    /\ now < MaxTime
    /\ now' = now + 1
    /\ UNCHANGED <<clients, breakers, shell, faults>>
    /\ ShellUnchanged

ShellNext ==
    \/ ShellBegin
    \/ \E ok \in BOOLEAN, current \in BOOLEAN : ShellEnd(ok, current)
    \/ \E dialOk \in BOOLEAN : ShellHealthCheck(dialOk)
    \/ ShellTick

ShellSpec == Init /\ [][ShellNext]_vars

\* ------------------------------------------------------- retry.Do alone
\* One retry.Do call with its context; the clock counts seconds here.  The
\* runtime wakes the sleeping select as soon as its timer or ctx.Done() is
\* ready, so the clock does not pass such a moment.
RetryUnchanged ==
    UNCHANGED <<files, chunks, sessions, disk, alive, ring, clients, breakers,
                up, dl, job, faults, rpc, liveVars, shell, lk, del>>

\* retry.Do is called; the context may be cancelled already.
RetryCall(cancelled) ==
    /\ rt.pc = "idle"
    /\ rt' = [rt EXCEPT !.pc = "loop", !.attempt = 0, !.backoff = InitialBackoff,
                        !.ctxDone = cancelled]
    /\ UNCHANGED now
    /\ RetryUnchanged

\* The top of the loop body: fn is called.
RetryFnStart ==
    /\ rt.pc = "loop"
    /\ rt' = [rt EXCEPT !.pc = "fn", !.executed = @ + 1,
                        !.afterCancel = @ + B(rt.ctxDone)]
    /\ UNCHANGED now
    /\ RetryUnchanged

\* fn returns err; the rest of the loop body up to the select.
RetryFnEnd(err) ==
    /\ rt.pc = "fn"
    /\ rt' = IF err = "none" THEN [rt EXCEPT !.pc = "done", !.result = "ok"]
             ELSE IF ~IsRetryable(err)
             THEN [rt EXCEPT !.pc = "done", !.result = "non-retryable error"]
             ELSE IF rt.attempt = MaxRetries
             THEN [rt EXCEPT !.pc = "done", !.result = "max retries exceeded"]
             ELSE IF rt.ctxDone
             THEN [rt EXCEPT !.pc = "done", !.result = "retry cancelled"]
             ELSE [rt EXCEPT !.pc = "backoff", !.wake = now + rt.backoff]
    /\ UNCHANGED now
    /\ RetryUnchanged

\* time.After(backoff) fires: the backoff doubles up to its cap and the loop
\* goes on.
RetryWake ==
    /\ rt.pc = "backoff"
    /\ now >= rt.wake
    /\ rt' = [rt EXCEPT !.pc = "loop", !.attempt = @ + 1, !.slept = TRUE,
                        !.backoff = Min(2 * rt.backoff, MaxBackoff)]
    /\ UNCHANGED now
    /\ RetryUnchanged

\* ctx.Done() is ready in the select.
RetryAbort ==
    /\ rt.pc = "backoff"
    /\ rt.ctxDone
    /\ rt' = [rt EXCEPT !.pc = "done", !.result = "retry cancelled"]
    /\ UNCHANGED now
    /\ RetryUnchanged

\* The caller's context is cancelled while fn runs or the call sleeps.
RetryCancel ==
    /\ rt.pc \in {"fn", "backoff"}
    /\ ~rt.ctxDone
    /\ rt' = [rt EXCEPT !.ctxDone = TRUE]
    /\ UNCHANGED now
    /\ RetryUnchanged

RetryTick ==
    /\ now < MaxRetryTime
    /\ rt.pc \in {"fn", "backoff"}
    /\ rt.pc = "backoff" => (now < rt.wake /\ ~rt.ctxDone)
    /\ now' = now + 1
    /\ UNCHANGED rt
    /\ RetryUnchanged

RetryNext ==
    \/ \E cancelled \in BOOLEAN : RetryCall(cancelled)
    \/ RetryFnStart
    \/ \E err \in {"none", "transport", "status"} : RetryFnEnd(err)
    \/ RetryWake
    \/ RetryAbort
    \/ RetryCancel
    \/ RetryTick

RetrySpec == Init /\ [][RetryNext]_vars

\* ------------------------------------------------- ring refresh loop
\* The gateway's refresh loop, the chunk servers' heartbeat goroutines and
\* the requests, on a clock that counts heartbeat intervals (10 s).  A ticker
\* that is due fires before the clock moves on.
LiveServers(rows, t) ==
    { s \in Servers : /\ rows[s].registered
                      /\ rows[s].status = "active"
                      /\ rows[s].last_heartbeat > t - HeartbeatTimeout }

\* The rings that RemoveServer for every server of `gone` and then AddServer
\* for every server of `fresh` may leave, in any order of map iteration.
RECURSIVE RemoveAll(_, _)
RemoveAll(hr, gone) ==
    IF gone = {} THEN hr
    ELSE LET s == CHOOSE x \in gone : TRUE
         IN  RemoveAll(RemoveServer(hr, s), gone \ {s})
RECURSIVE AddAll(_, _)
AddAll(rings, fresh) ==
    IF fresh = {} THEN rings
    ELSE UNION { AddAll(UNION { AddServer(hr, s) : hr \in rings }, fresh \ {s}) :
                 s \in fresh }

\* The servers RefreshHashRing keeps in the ring, given the live servers.
RefreshKeepsAll(active, current) == active \cup current
RefreshTarget(active, current) == active

\* One tick of the refresh ticker: RefreshHashRing.
RefreshHashRing(dbFault) ==
    /\ now >= refresh.next
    /\ Budget(B(dbFault))
    /\ faults' = faults + B(dbFault)
    /\ IF dbFault
       THEN /\ refresh' = [refresh EXCEPT !.next = now + RefreshInterval,
                                          !.ran = TRUE, !.ok = FALSE]
            /\ UNCHANGED <<ring, clients, breakers>>
       ELSE LET active == LiveServers(storage_servers, now)
                current == ring.servers
                target == RefreshTarget(active, current)
                gone == current \ target
                fresh == target \ current
            IN  /\ ring' \in AddAll({RemoveAll(ring, gone)}, fresh)
                /\ clients' = (clients \ gone) \cup fresh
                /\ breakers' = [s \in Servers |->
                                  IF s \in gone /\ s \in clients THEN NoBreaker
                                  ELSE IF s \in fresh
                                  THEN getCircuitBreaker(breakers, s)[s]
                                  ELSE breakers[s]]
                /\ refresh' = [next |-> now + RefreshInterval, ran |-> TRUE,
                               ok |-> TRUE, active |-> active]
    /\ UNCHANGED <<files, chunks, sessions, disk, alive, up, dl, job, now, rpc,
                   storage_servers, hb, conns, shellVars>>

\* One tick of a chunk server's heartbeat ticker: UpdateHeartbeat, whose
\* error is logged.
Heartbeat(s, dbFault) ==
    /\ hb[s].running
    /\ hb[s].beat < now
    /\ Budget(B(dbFault))
    /\ faults' = faults + B(dbFault)
    /\ hb' = [hb EXCEPT ![s].beat = now]
    /\ storage_servers' =
          IF dbFault \/ ~storage_servers[s].registered THEN storage_servers
          ELSE [storage_servers EXCEPT ![s].last_heartbeat = now]
    /\ UNCHANGED <<files, chunks, sessions, disk, alive, ring, clients, breakers,
                   up, dl, job, now, rpc, refresh, conns, shellVars>>

\* A chunk server gets SIGTERM: the heartbeat goroutine is stopped and the
\* gRPC server with it; the storage_servers row is left as it is.
ChunkServerShutdown(s) ==
    /\ hb[s].running
    /\ hb' = [hb EXCEPT ![s].running = FALSE, ![s].ceased = now]
    /\ alive' = [alive EXCEPT ![s] = FALSE]
    /\ UNCHANGED <<files, chunks, sessions, disk, ring, clients, breakers,
                   up, dl, job, now, faults, rpc, storage_servers, refresh, conns,
                   shellVars>>

\* A chunk server's main: CreateStorageServer upserts the row of its address,
\* then the gRPC server and the heartbeat goroutine start.
ChunkServerMain(s) ==
    /\ ~hb[s].running
    /\ storage_servers' = [storage_servers EXCEPT ![s] = ServerRow(now)]
    /\ hb' = [hb EXCEPT ![s] = [running |-> TRUE, ceased |-> 0, beat |-> now]]
    /\ alive' = [alive EXCEPT ![s] = TRUE]
    /\ UNCHANGED <<files, chunks, sessions, disk, ring, clients, breakers,
                   up, dl, job, now, faults, rpc, refresh, conns, shellVars>>

RefreshTick ==
    /\ now < MaxRefreshTime
    /\ now < refresh.next
    /\ \A s \in Servers : hb[s].running => hb[s].beat = now
    /\ now' = now + 1
    /\ UNCHANGED <<files, chunks, sessions, disk, alive, ring, clients, breakers,
                   up, dl, job, faults, rpc, liveVars, shellVars>>

\* The state after the construction of a gateway that found the chunk
\* servers of `reg` registered and beating.
RefreshInit ==
    \E reg \in (SUBSET Servers) \ {{}} :
        /\ files = [f \in FileIds |-> NoFile]
        /\ chunks = {}
        /\ sessions = {}
        /\ disk = [s \in Servers |-> [cid \in ChunkIds |-> NoChunkFile]]
        /\ alive = [s \in Servers |-> s \in reg]
        /\ ring \in AddAll({NewHashRing}, reg)
        /\ clients = reg
        /\ breakers = [s \in Servers |-> NoBreaker]
        /\ up = [f \in FileIds |-> IdleUpload]
        /\ dl = IdleDownload
        /\ job = IdleJob
        /\ now = 0
        /\ faults = 0
        /\ rpc = NoRpc
        /\ storage_servers = [s \in Servers |->
                                IF s \in reg THEN ServerRow(0) ELSE NoServerRow]
        /\ hb = [s \in Servers |-> [Beating EXCEPT !.running = s \in reg]]
        /\ refresh = NewRefreshLoop
        /\ conns = NoConns
        /\ shell = NoCalls
        /\ rt = NoRetry
        /\ lk = NoLock
        /\ del = IdleDelete

RefreshNext ==
    \/ \E dbFault \in BOOLEAN : RefreshHashRing(dbFault)
    \/ \E s \in Servers, dbFault \in BOOLEAN : Heartbeat(s, dbFault)
    \/ \E s \in Servers : ChunkServerShutdown(s)
    \/ \E s \in Servers : ChunkServerMain(s)
    \/ RefreshTick

RefreshSpec == RefreshInit /\ [][RefreshNext]_vars

\* ------------------------------------------- requests under ring changes
\* Uploads and downloads while chunk servers come and go.  The clock moves
\* from one tick of the refresh ticker to the next; the heartbeat ticker of a
\* chunk server that runs through that time has fired and its UpdateHeartbeat
\* has written the row.
TopologyTick ==
    /\ now < refresh.next
    /\ refresh.next <= MaxTopologyTime
    /\ now' = refresh.next
    /\ hb' = [s \in Servers |->
                IF hb[s].running THEN [hb[s] EXCEPT !.beat = refresh.next] ELSE hb[s]]
    /\ storage_servers' =
          [s \in Servers |->
             IF hb[s].running /\ storage_servers[s].registered
             THEN [storage_servers[s] EXCEPT !.last_heartbeat = refresh.next]
             ELSE storage_servers[s]]
    /\ UNCHANGED <<files, chunks, sessions, disk, alive, ring, clients, breakers,
                   up, dl, job, faults, rpc, refresh, conns, shellVars>>

\* Uploads of one byte per chunk.
TopologySizes == {numChunks}
TopologyNext ==
    \/ \E dbFault \in BOOLEAN : RefreshHashRing(dbFault)
    \/ \E s \in Servers : ChunkServerShutdown(s)
    \/ \E s \in Servers : ChunkServerMain(s)
    \/ TopologyTick
    \/ \E f \in FileIds, S \in TopologySizes : UploadBegin(f, S)
    \/ \E f \in FileIds : UploadPlace(f)
    \/ \E f \in FileIds : UploadPut(f)
    \/ \E f \in FileIds : UploadSaveChunks(f)
    \/ \E f \in FileIds : UploadFinalize(f)
    \/ \E f \in FileIds : DownloadBegin(f)
    \/ DownloadPlace
    \/ DownloadGet

TopologySpec == RefreshInit /\ [][TopologyNext]_vars

\* ------------------------------------------------ storage layer alone
\* Callers of PostgresStorage other than the gateway's handlers: files and
\* upload sessions are created, updated and deleted through the storage API
\* while the cleanup job runs.
StoreSessionIds == 1..MaxStoreSessions
StoreUnchanged ==
    UNCHANGED <<disk, alive, ring, clients, breakers, up, dl, job, now, faults,
                rpc, liveVars, shellVars>>

\* PostgresStorage.CreateFile.
StoreCreateFile(f, S) ==
    /\ ~files[f].exists
    /\ files' = [files EXCEPT ![f] = CreateFile(S, now)]
    /\ UNCHANGED <<chunks, sessions>>
    /\ StoreUnchanged

\* PostgresStorage.UpdateFileStatus.
StoreUpdateFileStatus(f, status) ==
    /\ files[f].exists
    /\ files' = UpdateFileStatus(files, f, status, TRUE)
    /\ UNCHANGED <<chunks, sessions>>
    /\ StoreUnchanged

\* PostgresStorage.CreateUploadSession: a plain INSERT; the primary key is
\* session_id and file_id must reference a file.
StoreCreateUploadSession(f, sid) ==
    /\ files[f].exists
    /\ \A x \in sessions : x.session_id # sid
    /\ sessions' = CreateUploadSession(sessions, sid, f, now, SessionTTL)
    /\ UNCHANGED <<files, chunks>>
    /\ StoreUnchanged

\* PostgresStorage.DeleteUploadSession.
StoreDeleteUploadSession(sid) ==
    /\ \E x \in sessions : x.session_id = sid
    /\ sessions' = DeleteUploadSession(sessions, sid)
    /\ UNCHANGED <<files, chunks>>
    /\ StoreUnchanged

\* PostgresStorage.DeleteFile, with the cascade of the schema.
StoreDeleteFile(f) ==
    /\ files[f].exists
    /\ files' = DeleteFileRows(files, f)
    /\ chunks' = DeleteFileChunks(chunks, f)
    /\ sessions' = DeleteFileSessions(sessions, f)
    /\ StoreUnchanged

StoreNext ==
    \/ \E f \in FileIds, S \in Sizes : StoreCreateFile(f, S)
    \/ \E f \in FileIds, status \in {"completed", "failed"} : StoreUpdateFileStatus(f, status)
    \/ \E f \in FileIds, sid \in StoreSessionIds : StoreCreateUploadSession(f, sid)
    \/ \E sid \in StoreSessionIds : StoreDeleteUploadSession(sid)
    \/ \E f \in FileIds : StoreDeleteFile(f)
    \/ CleanupStart
    \/ cleanupSession
    \/ Tick

StoreSpec == Init /\ [][StoreNext]_vars

\* ------------------------------------------- the gateway's connections
\* The router process as main wires it: initializeHashRing, the ring refresh
\* loop, and requests that ask getStorageClient for a server.  main starts
\* no connection health check loop.  conns.state[s] is the transport state a
\* connection to chunk server s shows, conns.since[s] the time it entered
\* that state, conns.rc a reconnectToStorageServer call between its two
\* critical sections.
BadStates == {"TransientFailure", "Shutdown", "Idle"}

\* The state after main's construction: the servers of reg had a fresh
\* heartbeat, the blocking dial to those of down timed out.
ConnInit ==
    \E reg \in (SUBSET Servers) \ {{}} : \E down \in SUBSET reg :
        /\ files = [f \in FileIds |-> NoFile]
        /\ chunks = {}
        /\ sessions = {}
        /\ disk = [s \in Servers |-> [cid \in ChunkIds |-> NoChunkFile]]
        /\ alive = [s \in Servers |-> s \in reg \ down]
        /\ ring \in AddAll({NewHashRing}, reg)
        /\ clients = reg \ down
        /\ breakers = [s \in Servers |-> NoBreaker]
        /\ up = [f \in FileIds |-> IdleUpload]
        /\ dl = IdleDownload
        /\ job = IdleJob
        /\ now = 0
        /\ faults = 0
        /\ rpc = NoRpc
        /\ storage_servers = [s \in Servers |->
                                IF s \in reg THEN ServerRow(0) ELSE NoServerRow]
        /\ hb = [s \in Servers |-> [Beating EXCEPT !.running = s \in reg \ down]]
        /\ refresh = NewRefreshLoop
        /\ conns = [NoConns EXCEPT !.state = [s \in Servers |->
                                      IF s \in reg \ down THEN "Ready"
                                      ELSE "TransientFailure"]]
        /\ shell = NoCalls
        /\ rt = NoRetry
        /\ lk = NoLock
        /\ del = IdleDelete

ConnUnchanged ==
    UNCHANGED <<files, chunks, sessions, disk, alive, up, dl, job, now, rpc,
                storage_servers, hb, refresh, shellVars>>

\* The transport of the connection to s fails: the chunk server is down.
TransportFails(s) ==
    /\ ~alive[s]
    /\ conns.state[s] \in {"Ready", "Idle"}
    /\ conns' = [conns EXCEPT !.state[s] = "TransientFailure", !.since[s] = now]
    /\ UNCHANGED <<ring, clients, breakers, faults>>
    /\ ConnUnchanged

\* gRPC's own redial succeeds: the chunk server is up again.
TransportRecovers(s) ==
    /\ alive[s]
    /\ conns.state[s] = "TransientFailure"
    /\ conns' = [conns EXCEPT !.state[s] = "Ready", !.since[s] = now]
    /\ UNCHANGED <<ring, clients, breakers, faults>>
    /\ ConnUnchanged

\* A connection without traffic goes idle.
TransportIdles(s) ==
    /\ alive[s]
    /\ conns.state[s] = "Ready"
    /\ conns' = [conns EXCEPT !.state[s] = "Idle", !.since[s] = now]
    /\ UNCHANGED <<ring, clients, breakers, faults>>
    /\ ConnUnchanged

\* A request asks getStorageClient for server s and, given a client, goes
\* on to getCircuitBreaker.  A connection in TransientFailure or Shutdown is
\* reconnected when the ring knows the server's address:
\* reconnectToStorageServer deletes the connection in its first critical
\* section.
GetStorageClient(s) ==
    /\ conns.rc.pc = "idle"
    /\ IF s \notin clients
       THEN UNCHANGED <<clients, breakers, conns>>
       ELSE IF conns.state[s] \in {"TransientFailure", "Shutdown"}
       THEN IF s \notin ring.servers
            THEN UNCHANGED <<clients, breakers, conns>>
            ELSE /\ clients' = clients \ {s}
                 /\ conns' = [conns EXCEPT !.rc = [pc |-> "dial", server |-> s]]
                 /\ UNCHANGED breakers
       ELSE /\ breakers' = getCircuitBreaker(breakers, s)
            /\ UNCHANGED <<clients, conns>>
    /\ UNCHANGED <<ring, faults>>
    /\ ConnUnchanged

\* The rest of reconnectToStorageServer: grpc.Dial, and on success the new
\* connection is stored in its second critical section and the request goes
\* on to getCircuitBreaker; a dial error is returned to the request.
ReconnectDial(dialOk) ==
    LET s == conns.rc.server
    IN  /\ conns.rc.pc = "dial"
        /\ Budget(B(~dialOk))
        /\ faults' = faults + B(~dialOk)
        /\ IF dialOk
           THEN /\ clients' = clients \cup {s}
                /\ breakers' = getCircuitBreaker(breakers, s)
                /\ conns' = [conns EXCEPT !.rc = NoReconnect,
                                          !.state[s] = IF alive[s] THEN "Ready"
                                                       ELSE "TransientFailure",
                                          !.since[s] = now]
           ELSE /\ conns' = [conns EXCEPT !.rc = NoReconnect]
                /\ UNCHANGED <<clients, breakers>>
        /\ UNCHANGED ring
        /\ ConnUnchanged

\* The clock moves on between reconnects: a non-blocking dial returns at once.
ConnTick ==
    /\ conns.rc.pc = "idle"
    /\ TopologyTick

ConnNext ==
    \/ \E s \in Servers : TransportFails(s)
    \/ \E s \in Servers : TransportRecovers(s)
    \/ \E s \in Servers : TransportIdles(s)
    \/ \E s \in Servers : GetStorageClient(s)
    \/ \E dialOk \in BOOLEAN : ReconnectDial(dialOk)
    \/ \E dbFault \in BOOLEAN : RefreshHashRing(dbFault)
    \/ \E s \in Servers : ChunkServerShutdown(s)
    \/ \E s \in Servers : ChunkServerMain(s)
    \/ ConnTick

ConnSpec == ConnInit /\ [][ConnNext]_vars

\* --------------------------------------------- the ring under its mutex
\* One goroutine that mutates the ring (the refresh loop) and one that looks
\* a key up (a request), each inside a method of HashRing a statement at a
\* time.  AddServer and RemoveServer hold hr.mu for writing from their first
\* statement to their return, GetServer holds it for reading.
PanicResult == 0 - 1
LockServers == 1..MaxLockServers

\* A reader that does not wait for the writer.
RLockUnguarded(mu) == TRUE
\* sync.RWMutex.RLock returns when no writer holds the mutex.
RLock(mu) == ~mu.w
\* sync.RWMutex.Lock returns when nobody holds the mutex.
Lock(mu) == ~mu.w /\ mu.r = 0

LockUnchanged ==
    UNCHANGED <<files, chunks, sessions, disk, alive, clients, breakers, up, dl,
                job, now, faults, rpc, liveVars, shell, rt, del>>

\* AddServer or RemoveServer is called and takes hr.mu.
CallAddServer(s) ==
    /\ lk.wr.pc = "idle"
    /\ Len(ring.nodes) + VirtualNodes <= MaxRingNodes
    /\ Lock(lk.mu)
    /\ lk' = [lk EXCEPT !.mu.w = TRUE,
                        !.wr = [pc |-> "servers", op |-> "add", server |-> s]]
    /\ UNCHANGED ring
    /\ LockUnchanged

CallRemoveServer(s) ==
    /\ lk.wr.pc = "idle"
    /\ Lock(lk.mu)
    /\ lk' = [lk EXCEPT !.mu.w = TRUE,
                        !.wr = [pc |-> "servers", op |-> "remove", server |-> s]]
    /\ UNCHANGED ring
    /\ LockUnchanged

\* AddServer: hr.servers[serverID] is set and the virtual nodes are appended.
\* RemoveServer: ErrServerNotFound, or the server is deleted from hr.servers.
MutateServers ==
    LET s == lk.wr.server
        fresh == [v \in 1..VirtualNodes |->
                    [HashValue |-> XxHashNode(s, v - 1), ServerID |-> s]]
    IN  /\ lk.wr.pc = "servers"
        /\ IF lk.wr.op = "add"
           THEN /\ ring' = [nodes |-> ring.nodes \o fresh,
                            servers |-> ring.servers \cup {s}]
                /\ lk' = [lk EXCEPT !.wr.pc = "nodes"]
           ELSE IF s \notin ring.servers
           THEN /\ lk' = [lk EXCEPT !.wr.pc = "unlock"]
                /\ UNCHANGED ring
           ELSE /\ ring' = [ring EXCEPT !.servers = ring.servers \ {s}]
                /\ lk' = [lk EXCEPT !.wr.pc = "nodes"]
        /\ LockUnchanged

\* AddServer: sort.Slice.  RemoveServer: hr.nodes = newNodes.
MutateNodes ==
    /\ lk.wr.pc = "nodes"
    /\ IF lk.wr.op = "add"
       THEN \E q \in SortNodes({ <<>> }, ring.nodes) :
                ring' = [ring EXCEPT !.nodes = q]
       ELSE ring' = [ring EXCEPT !.nodes = SelectNodes(ring.nodes, lk.wr.server)]
    /\ lk' = [lk EXCEPT !.wr.pc = "unlock"]
    /\ LockUnchanged

\* The deferred hr.mu.Unlock: the mutation has happened.
MuUnlock ==
    /\ lk.wr.pc = "unlock"
    /\ lk' = [lk EXCEPT !.mu.w = FALSE,
                        !.wr = NoLock.wr,
                        !.version = ring,
                        !.rd.seen = IF lk.rd.pc \in {"idle", "done"} THEN @
                                    ELSE @ \cup {GetServer(ring, lk.rd.key)}]
    /\ UNCHANGED ring
    /\ LockUnchanged

\* GetServer is called.
CallGetServer(keyHash) ==
    /\ lk.rd.pc \in {"idle", "done"}
    /\ lk' = [lk EXCEPT !.rd = [pc |-> "rlock", key |-> keyHash, idx |-> 0,
                                result |-> NoServer,
                                seen |-> {GetServer(lk.version, keyHash)}]]
    /\ UNCHANGED ring
    /\ LockUnchanged

\* hr.mu.RLock()
MuRLock ==
    /\ lk.rd.pc = "rlock"
    /\ RLock(lk.mu)
    /\ lk' = [lk EXCEPT !.mu.r = @ + 1, !.rd.pc = "len"]
    /\ UNCHANGED ring
    /\ LockUnchanged

\* if len(hr.nodes) == 0 { return "", ErrNoServersAvailable }
GetServerLen ==
    /\ lk.rd.pc = "len"
    /\ lk' = IF Len(ring.nodes) = 0
             THEN [lk EXCEPT !.rd.result = NoServer, !.rd.pc = "runlock"]
             ELSE [lk EXCEPT !.rd.pc = "search"]
    /\ UNCHANGED ring
    /\ LockUnchanged

\* idx := sort.Search(len(hr.nodes), ...)
GetServerSearch ==
    /\ lk.rd.pc = "search"
    /\ lk' = [lk EXCEPT !.rd.idx = SearchNodes(ring.nodes, lk.rd.key),
                        !.rd.pc = "index"]
    /\ UNCHANGED ring
    /\ LockUnchanged

\* The wrap-around and hr.nodes[idx].ServerID; an index out of range panics.
GetServerIndex ==
    LET idx == IF lk.rd.idx > Len(ring.nodes) THEN 1 ELSE lk.rd.idx
    IN  /\ lk.rd.pc = "index"
        /\ lk' = [lk EXCEPT !.rd.result = IF idx \in 1..Len(ring.nodes)
                                          THEN ring.nodes[idx].ServerID
                                          ELSE PanicResult,
                            !.rd.pc = "runlock"]
        /\ UNCHANGED ring
        /\ LockUnchanged

\* The deferred hr.mu.RUnlock: GetServer returns.
MuRUnlock ==
    /\ lk.rd.pc = "runlock"
    /\ lk' = [lk EXCEPT !.mu.r = IF @ > 0 THEN @ - 1 ELSE 0, !.rd.pc = "done"]
    /\ UNCHANGED ring
    /\ LockUnchanged

LockNext ==
    \/ \E s \in LockServers : CallAddServer(s)
    \/ \E s \in LockServers : CallRemoveServer(s)
    \/ MutateServers
    \/ MutateNodes
    \/ MuUnlock
    \/ \E keyHash \in KeyHashes : CallGetServer(keyHash)
    \/ MuRLock
    \/ GetServerLen
    \/ GetServerSearch
    \/ GetServerIndex
    \/ MuRUnlock

LockSpec == RingInit /\ [][LockNext]_vars

\* ------------------------------------------------------------ DeleteFile
\* The gateway's DeleteFile handler beside uploads.  del.had is the number of
\* chunks rows GetFileByID returned, del.ctxDone that the request's context
\* (2 minutes for the whole handler) is over, del.dbFault that the database
\* failed a statement of the request.
DeleteUnchanged ==
    UNCHANGED <<alive, ring, clients, breakers, up, dl, job, now, rpc, liveVars,
                shell, rt, lk>>

\* DeleteFile up to the chunk loop: GetFileByID; any error is answered 404.
DeleteBegin(f) ==
    /\ del.pc = "idle"
    /\ \E dbFault \in BOOLEAN :
        /\ Budget(B(dbFault))
        /\ faults' = faults + B(dbFault)
        /\ del' = IF dbFault \/ ~files[f].exists
                  THEN [IdleDelete EXCEPT !.pc = "done", !.file = f, !.code = 404,
                                          !.dbFault = dbFault]
                  ELSE LET rows == GetChunksByFileID(chunks, f)
                       IN  [IdleDelete EXCEPT !.pc = "chunk", !.file = f,
                                              !.rows = rows, !.i = 1,
                                              !.had = Len(rows), !.found = TRUE]
    /\ UNCHANGED <<files, chunks, sessions, disk>>
    /\ DeleteUnchanged

\* One iteration of the chunk loop: getStorageClient, then DeleteChunk under
\* the request's context.  A call that gets no answer returns when the
\* context's deadline passes; every later call fails at once.
DeleteFileChunk ==
    /\ del.pc = "chunk"
    /\ del.i <= Len(del.rows)
    /\ \E outcome \in {"ok", "transport", "hang"} :
        LET row == del.rows[del.i]
            s == row.storage_server_id
            cid == row.chunk_id
            called == s \in clients /\ ~del.ctxDone
            r == DeleteChunk(disk[s][cid])
            deleted == called /\ outcome = "ok" /\ alive[s] /\ r[2] = "OK"
        IN  /\ ~called => outcome = "ok"
            /\ Budget(B(outcome # "ok"))
            /\ faults' = faults + B(outcome # "ok")
            /\ disk' = IF called /\ outcome = "ok" /\ alive[s]
                       THEN [disk EXCEPT ![s][cid] = r[1]]
                       ELSE disk
            /\ del' = [del EXCEPT !.i = @ + 1,
                                  !.deletedChunks = @ + B(deleted),
                                  !.failedChunks = @ + B(~deleted),
                                  !.ctxDone = @ \/ (called /\ outcome = "hang")]
    /\ UNCHANGED <<files, chunks, sessions>>
    /\ DeleteUnchanged

\* After the loop: DELETE FROM files under the request's context, with the
\* cascade of the schema, and the response.
DeleteFileRow ==
    /\ del.pc = "chunk"
    /\ del.i > Len(del.rows)
    /\ \E dbFault \in BOOLEAN :
        LET f == del.file
        IN  /\ del.ctxDone => ~dbFault
            /\ Budget(B(dbFault))
            /\ faults' = faults + B(dbFault)
            /\ IF del.ctxDone \/ dbFault
               THEN /\ del' = [del EXCEPT !.pc = "done", !.code = 500,
                                          !.dbFault = dbFault]
                    /\ UNCHANGED <<files, chunks, sessions>>
               ELSE IF ~files[f].exists
               THEN /\ del' = [del EXCEPT !.pc = "done", !.code = 404]
                    /\ UNCHANGED <<files, chunks, sessions>>
               ELSE /\ del' = [del EXCEPT !.pc = "done", !.code = 200]
                    /\ files' = DeleteFileRows(files, f)
                    /\ chunks' = DeleteFileChunks(chunks, f)
                    /\ sessions' = DeleteFileSessions(sessions, f)
    /\ UNCHANGED disk
    /\ DeleteUnchanged

DeleteNext ==
    \/ \E f \in FileIds, S \in TopologySizes : UploadBegin(f, S)
    \/ \E f \in FileIds : UploadPlace(f)
    \/ \E f \in FileIds : UploadPut(f)
    \/ \E f \in FileIds : UploadSaveChunks(f)
    \/ \E f \in FileIds : UploadFinalize(f)
    \/ \E s \in Servers : ServerStop(s)
    \/ \E s \in Servers : ServerStart(s)
    \/ \E f \in FileIds : DeleteBegin(f)
    \/ DeleteFileChunk
    \/ DeleteFileRow

DeleteSpec == Init /\ [][DeleteNext]_vars

\* ---------------------------------------------------------------- claims
IsPrefix(a, b) == Len(a) <= Len(b) /\ a = SubSeq(b, 1, Len(a))
FileRows(f) == { c \in chunks : c.file_id = f }
OnLiveServer(f) ==
    \E s \in Servers, cid \in ChunkIds : alive[s] /\ cid[1] = f /\ disk[s][cid].present
CleanupRan == job.pc = "idle" /\ job.next > now

\* C1: with every chunk server live and no fault, an upload of any accepted
\* size (1..maxFileSize, sizes below six bytes included) answers 201 with
\* the File completed, and a download answered 200 delivers exactly the
\* uploaded bytes.
C1_RoundTrip ==
    faults = 0 =>
        /\ \A f \in FileIds :
              up[f].pc = "done" /\ up[f].size \in 1..maxFileSize =>
                  up[f].code = 201 /\ files[f].upload_status = "completed"
        /\ dl.pc = "done" /\ dl.code = 200 =>
              ~dl.aborted /\ dl.written = Body(up[dl.file].size)

\* C2: a File in state completed has exactly six Chunk rows, numbered 0..5,
\* each in state completed.
C2_CompletedHasSixCompletedChunks ==
    \A f \in FileIds :
        files[f].exists /\ files[f].upload_status = "completed" =>
            /\ Cardinality(FileRows(f)) = numChunks
            /\ { c.chunk_number : c \in FileRows(f) } = 0..(numChunks - 1)
            /\ \A c \in FileRows(f) : c.status = "completed"

\* C3: while a download of a completed file streams with status 200 from
\* chunk files that hold the uploaded bytes, what has been written to the
\* client is a prefix of the file's content.
C3_DownloadWritesPrefix ==
    ( /\ dl.pc # "idle"
      /\ dl.code = 200
      /\ \A k \in 1..Len(dl.rows) :
            disk[dl.rows[k].storage_server_id][dl.rows[k].chunk_id] =
                ChunkFile(ChunkData(dl.size, dl.size, dl.rows[k].chunk_number)) )
    => IsPrefix(dl.written, Body(dl.size))

\* C4: an upload that inserted its File row and answered with an error has
\* left the row in state failed.
C4_ErrorLeavesFailed ==
    \A f \in FileIds :
        up[f].pc = "done" /\ up[f].inserted /\ up[f].code # 201 /\ files[f].exists =>
            files[f].upload_status = "failed"

\* C5: once the session TTL plus one reclamation interval has passed since
\* the File row of an upload that did not complete was inserted, and the
\* reclamation due by then has run, the File row, its Chunk rows and its
\* chunk files on live servers are gone.
C5_IncompleteUploadReclaimed ==
    \A f \in FileIds :
        ( /\ up[f].pc = "done" /\ up[f].inserted /\ up[f].code # 201
          /\ now > up[f].created_at + SessionTTL + CleanupInterval
          /\ CleanupRan )
        => ~files[f].exists /\ FileRows(f) = {} /\ ~OnLiveServer(f)

\* C6: a File row in state pending or failed has an UploadSession row
\* referring to it.
C6_FileHasSession ==
    \A f \in FileIds :
        files[f].exists /\ files[f].upload_status \in {"pending", "failed"} =>
            \E x \in sessions : x.file_id = f

\* C7: when the reclamation cycle has handled an expired active session of
\* a finished upload, the session row, the File row, the Chunk rows and the
\* file's chunk files on live servers are gone.
C7_SessionReclaimed ==
    [][ (job.pc = "run" /\ job' # job /\ up[Head(job.queue).file_id].pc = "done") =>
            LET x == Head(job.queue)
                f == x.file_id
            IN  /\ x \notin sessions'
                /\ ~files'[f].exists
                /\ \A c \in chunks' : c.file_id # f
                /\ \A s \in Servers, cid \in ChunkIds :
                      alive'[s] /\ cid[1] = f => ~disk'[s][cid].present ]_vars

\* C8: finalization is one transaction: no state shows the six Chunk rows of
\* a file stored while the File is pending or failed, or a File completed
\* while a session of it is active.
C8_FinalizationAtomic ==
    \A f \in FileIds :
        files[f].exists =>
            /\ ~( Cardinality(FileRows(f)) = numChunks
                  /\ files[f].upload_status \in {"pending", "failed"} )
            /\ ~( files[f].upload_status = "completed"
                  /\ \E x \in sessions : x.file_id = f /\ x.status = "active" )

\* C9: the digest stored in the row of a completed File is the SHA-256 of
\* the file's content and equals the checksum of the upload response.
C9_StoredDigest ==
    \A f \in FileIds :
        files[f].exists /\ files[f].upload_status = "completed" =>
            /\ files[f].checksum = Sha256Hex(Body(files[f].total_size))
            /\ up[f].code = 201 => up[f].checksum = files[f].checksum

\* C10: a successful, complete download response holds no byte that was
\* altered on disk.
C10_AlteredChunkNotServed ==
    dl.pc = "done" /\ dl.code = 200 /\ ~dl.aborted =>
        \A k \in 1..Len(dl.written) : dl.written[k] # CorruptByte

\* C11: a chunk file present at its final path (and not altered on disk
\* afterwards) holds the complete content of the chunk that the upload put
\* under that id with a verified checksum, never a part of it.
C11_NoPartialChunkAtFinalPath ==
    \A s \in Servers, cid \in ChunkIds :
        ( /\ disk[s][cid].present
          /\ \A j \in 1..Len(disk[s][cid].data) : disk[s][cid].data[j] # CorruptByte )
        => disk[s][cid].data = ChunkData(up[cid[1]].size, up[cid[1]].body, cid[2])

\* C12: a PutChunk stream that ended normally, carried an expected checksum in
\* its first message and whose received bytes do not hash to it, is answered
\* DataLoss (never OK) and leaves no chunk file under its chunk id.
C12_MismatchFailsDataLoss ==
    ( /\ rpc.op = "put"
      /\ rpc.complete
      /\ rpc.frames >= 1
      /\ rpc.expected # NoChecksum
      /\ Sha256Hex(rpc.data) # rpc.expected )
    => ( /\ rpc.status = "DataLoss"
         /\ ~disk[rpc.server][rpc.chunk_id].present )
C12_Witness ==
    /\ rpc.op = "put"
    /\ rpc.complete
    /\ rpc.expected # NoChecksum
    /\ Sha256Hex(rpc.data) # rpc.expected
    /\ rpc.status = "DataLoss"
    /\ ~disk[rpc.server][rpc.chunk_id].present

\* C13: an upload of a size above the limit has been answered 413 and one of
\* size 0 has been answered 400, and the request left no File row, no Chunk
\* row, no chunk file and no step of its chunk loop (no server chosen, no
\* attempt made).
C13_RejectedBeforeState ==
    \A f \in FileIds :
        (up[f].pc # "idle" /\ (up[f].size > MaxSize \/ up[f].size = 0))
        => ( /\ up[f].pc = "done"
             /\ up[f].code = (IF up[f].size > MaxSize THEN 413 ELSE 400)
             /\ ~up[f].inserted
             /\ files[f] = NoFile
             /\ FileRows(f) = {}
             /\ up[f].chunks = <<>>
             /\ up[f].server = NoServer
             /\ up[f].attempt = 0
             /\ up[f].i = 0
             /\ up[f].hasher = <<>>
             /\ \A s \in Servers, cid \in ChunkIds : cid[1] = f => ~disk[s][cid].present )
C13_Witness ==
    \E f \in FileIds : up[f].pc = "done" /\ up[f].size > MaxSize /\ up[f].code = 413

\* C14: a download request for an id without File row is answered 404 and one
\* for a File that is not completed is answered 409 (whether or not the read
\* of the metadata succeeds), both without a byte of
\* the file written and without a chunk-server call; the chunk loop is entered
\* only for a File that exists and is completed, and file bytes are written
\* only under status 200.
C14_DownloadGate ==
    [][ /\ (dl'.count = dl.count + 1) =>
            LET f == dl'.file
                quiet == /\ dl'.pc = "done"
                         /\ dl'.written = <<>>
                         /\ dl'.attempt = 0
                         /\ UNCHANGED <<disk, breakers, clients, rpc>>
            IN  /\ ~files[f].exists => (dl'.code = 404 /\ quiet)
                /\ (files[f].exists /\ files[f].upload_status # "completed")
                       => (dl'.code = 409 /\ quiet)
                /\ dl'.pc = "chunk"
                       => (files[f].exists /\ files[f].upload_status = "completed")
        /\ dl'.code \in {404, 409} => (dl'.pc = "done" /\ dl'.written = <<>>)
        /\ dl'.written # <<>> => dl'.code = 200
      ]_vars

\* C15: for the size S (1 <= S <= limit) of every upload that got past the
\* validation, the boundary computation for 6 chunks returns 6 chunks numbered
\* 0..5, the first S mod 6 of size S div 6 + 1 and the rest of size S div 6,
\* chunk 0 at offset 0, each chunk starting where the previous one ends, and
\* sizes that sum to S.
C15_ChunkBoundaries ==
    \A f \in FileIds :
        (up[f].pc # "idle" /\ up[f].size \in 1..MaxSize) =>
            LET S == up[f].size
                b == CalculateChunkBoundaries(S, 6)
            IN  /\ Len(b) = 6
                /\ \A i \in 1..6 :
                      /\ b[i].Number = i - 1
                      /\ b[i].Size = (IF i - 1 < S % 6 THEN (S \div 6) + 1 ELSE S \div 6)
                /\ b[1].Offset = 0
                /\ \A i \in 2..6 : b[i].Offset = b[i - 1].Offset + b[i - 1].Size
                /\ b[6].Offset + b[6].Size = S
C15_Witness ==
    \E f \in FileIds :
        /\ up[f].pc = "chunk"
        /\ up[f].size > 6
        /\ up[f].size % 6 # 0
        /\ up[f].i > 0

RECURSIVE SumChunkSizes(_)
SumChunkSizes(rows) ==
    IF rows = {} THEN 0
    ELSE LET c == CHOOSE r \in rows : TRUE
         IN  c.chunk_size + SumChunkSizes(rows \ {c})

C17_LookupSuccessor ==
    \A h \in KeyHashes :
        IF ring.nodes = <<>> THEN GetServer(ring, h) = NoServer
        ELSE LET n == ring.nodes
                 ge == { i \in 1..Len(n) : n[i].HashValue >= h }
             IN  IF ge = {}
                 THEN /\ GetServer(ring, h) = n[1].ServerID
                      /\ \A j \in 1..Len(n) : n[1].HashValue <= n[j].HashValue
                 ELSE LET first == CHOOSE i \in ge : \A j \in ge : i <= j
                      IN  /\ GetServer(ring, h) = n[first].ServerID
                          /\ \A j \in ge : n[first].HashValue <= n[j].HashValue
C17_Witness ==
    /\ Cardinality(ring.servers) >= 2
    /\ \E h \in KeyHashes : \A j \in 1..Len(ring.nodes) : ring.nodes[j].HashValue < h
    /\ \E h \in KeyHashes : \E j \in 1..Len(ring.nodes) : ring.nodes[j].HashValue = h
    /\ GetServer(ring, HashSpace - 1) = ring.nodes[1].ServerID

NodesOf(hr, s) == Len(SelectSeq(hr.nodes, LAMBDA n : n.ServerID = s))

\* C18: an AddServer call for a server that is already registered leaves the
\* ring as it was, and after every AddServer or RemoveServer call each
\* registered server has exactly VirtualNodes (150 in the source) nodes on the
\* ring.
C18_AddIdempotent ==
    [][ /\ ring'.servers = ring.servers => ring'.nodes = ring.nodes
        /\ \A s \in ring'.servers : NodesOf(ring', s) = VirtualNodes
      ]_vars

\* The lookup the tie-break rule defines from the set of registered servers:
\* among the virtual nodes (hash, server_id, virtual_index) of the registered
\* servers, the least one at or after the key in the order of hash, then
\* server_id, then virtual_index, wrapping to the least node of all.
VNodes(servers) ==
    { [HashValue |-> XxHashNode(s, v), ServerID |-> s, Index |-> v] :
        s \in servers, v \in 0..(VirtualNodes - 1) }
NodeBefore(a, b) ==
    \/ a.HashValue < b.HashValue
    \/ a.HashValue = b.HashValue /\ a.ServerID < b.ServerID
    \/ a.HashValue = b.HashValue /\ a.ServerID = b.ServerID /\ a.Index <= b.Index
LeastNode(ns) == CHOOSE a \in ns : \A b \in ns : NodeBefore(a, b)
TieBreakLookup(servers, h) ==
    IF servers = {} THEN NoServer
    ELSE LET ge == { n \in VNodes(servers) : n.HashValue >= h }
         IN  LeastNode(IF ge = {} THEN VNodes(servers) ELSE ge).ServerID

\* C19: a RemoveServer(s) call changes the lookup only of keys that mapped to
\* s, each of which then maps to a server still registered (when one is left),
\* and an AddServer(s') call changes the lookup only of keys that map to s'
\* afterwards.
C19_MinimalMovement ==
    [][ \A h \in KeyHashes :
          GetServer(ring', h) # GetServer(ring, h) =>
            \/ /\ ring'.servers \subseteq ring.servers
               /\ GetServer(ring, h) \in ring.servers \ ring'.servers
               /\ ring'.servers # {} => GetServer(ring', h) \in ring'.servers
            \/ /\ ring.servers \subseteq ring'.servers
               /\ Len(ring'.nodes) > Len(ring.nodes)
               /\ NodesOf(ring', GetServer(ring', h)) > NodesOf(ring, GetServer(ring', h))
      ]_vars

\* C20: the lookup depends only on the set of registered servers and the key:
\* for every key it is the server the tie-break rule picks from that set,
\* whatever calls built the ring.
C20_LookupBySetOnly ==
    \A h \in KeyHashes : GetServer(ring, h) = TieBreakLookup(ring.servers, h)

\* C21: a closed breaker opens exactly on the step that records the 5th
\* failure in a row; a success recorded while closed ends the row, so a
\* breaker that stays closed has fewer than 5 failures in a row.
C21_OpensOnFifthFailure ==
    [][ LET b == breakers[ShellServer]
            a == breakers'[ShellServer]
        IN  /\ (b.state = "closed" /\ a.state = "open")
                  => (shell'.last = "failure" /\ shell'.run = 5)
            /\ (b.state = "closed" /\ shell'.run = shell.run + 1 /\ shell'.run = 5)
                  => a.state = "open"
            /\ (b.state = "closed" /\ a.state = "closed" /\ shell'.last = "success"
                  /\ shell' # shell)
                  => shell'.run = 0
            /\ a.state = "closed" => shell'.run < 5
      ]_vars
C21_Witness ==
    /\ breakers[ShellServer].state = "open"
    /\ shell.last = "failure"
    /\ shell.run = 5

C23_HalfOpenAdmitsThree ==
    breakers[ShellServer].state = "half-open" => shell.admitted <= 3

\* C24: when the success of a call closes a half-open breaker, 3 calls
\* admitted in that half-open period have succeeded.
C24_ClosesOnCurrentSuccesses ==
    [][ ( /\ breakers[ShellServer].state = "half-open"
          /\ breakers'[ShellServer].state = "closed"
          /\ shell'.last = "success" )
        => shell'.good >= 3
      ]_vars

\* C25: one retry.Do call executes fn at most 3 times in total.
C25_AtMostThreeExecutions == rt.executed <= 3

\* C26: fn is never started with the context already cancelled, not even the
\* first time, and a call whose context is cancelled does not sit in a
\* backoff while the clock moves on.
C26_CancelStopsRetry ==
    [][ /\ rt'.afterCancel = 0
        /\ (rt.pc = "backoff" /\ rt.ctxDone) => now' = now
      ]_vars

\* C27: when a RefreshHashRing call whose query returned completes, the
\* servers registered in the ring, and the servers that own its virtual
\* nodes, are exactly the servers that were live at the query: status active
\* and last heartbeat less than HeartbeatTimeout old.
C27_RingEqualsLiveSet ==
    [][ (refresh'.next # refresh.next /\ refresh'.ok)
        => LET live == { s \in Servers :
                           /\ storage_servers[s].registered
                           /\ storage_servers[s].status = "active"
                           /\ now - storage_servers[s].last_heartbeat < HeartbeatTimeout }
           IN  /\ ring'.servers = live
               /\ { ring'.nodes[i].ServerID : i \in 1..Len(ring'.nodes) } = live
               /\ Len(ring'.nodes) = VirtualNodes * Cardinality(live)
      ]_vars
\* A refresh has removed a registered server whose heartbeat went stale.
C27_Witness ==
    /\ refresh.ok
    /\ \E s \in Servers :
          /\ storage_servers[s].registered
          /\ now - storage_servers[s].last_heartbeat >= HeartbeatTimeout
          /\ s \notin ring.servers
    /\ \E s \in Servers : s \in ring.servers

\* C28: a chunk server whose heartbeat stopped at time t is, from
\* t + 2 * RefreshInterval on, not registered in the ring, owns no virtual
\* node of it, and is returned by GetServer for no key.
C28_StoppedServerLeavesRing ==
    \A s \in Servers :
        ( /\ storage_servers[s].registered
          /\ ~hb[s].running
          /\ now >= hb[s].ceased + 2 * RefreshInterval )
        => ( /\ s \notin ring.servers
             /\ NodesOf(ring, s) = 0
             /\ \A k \in 0..(HashSpace - 1) : GetServer(ring, k) # s )

\* C29: no step changes the storage_server_id of an existing chunk row, a
\* step that changes the ring changes no chunk row at all, and the server a
\* download asks for a chunk is the one recorded in the chunk's row in the
\* table, whatever the ring says.
C29_ChunkLocationImmutable ==
    [][ /\ \A r \in chunks : \A q \in chunks' :
              q.chunk_id = r.chunk_id => q.storage_server_id = r.storage_server_id
        /\ ring' # ring => chunks' = chunks
        /\ dl'.pc = "get"
              => \E r \in chunks' :
                    /\ r.chunk_id = dl'.rows[dl'.i].chunk_id
                    /\ r.file_id = dl'.file
                    /\ dl'.server = r.storage_server_id
      ]_vars
\* A download is about to fetch a chunk from the server of its row while the
\* ring maps the chunk to another server.
C29_Witness ==
    /\ dl.pc = "get"
    /\ \E r \in chunks :
          /\ r.chunk_id = dl.rows[dl.i].chunk_id
          /\ dl.server = r.storage_server_id
          /\ GetServer(ring, XxHashKey(r.chunk_id)) \notin {NoServer, dl.server}

\* C30: in every state of the metadata each file has at most one
\* upload_sessions row with status active.
C30_OneActiveSessionPerFile ==
    \A f \in FileIds :
        Cardinality({ x \in sessions : x.file_id = f /\ x.status = "active" }) <= 1

\* C31: once no reconnect is in progress, a server that is not in the ring
\* has no entry in the connection map and none in the breaker map.
C31_RemovedServerHasNoEntries ==
    \A s \in Servers :
        (s \notin ring.servers /\ conns.rc.pc = "idle")
        => (s \notin clients /\ breakers[s] = NoBreaker)

\* C32: with no reconnect in progress, every server in the ring has a client
\* in the connection map.
C32_RingServersHaveClients ==
    conns.rc.pc = "idle" => \A s \in ring.servers : s \in clients

\* C36: no client connection has been in TransientFailure, Shutdown or Idle
\* for longer than one connection health interval.
C36_BadConnectionRedialed ==
    \A s \in clients :
        conns.state[s] \in BadStates => now - conns.since[s] <= HealthCheckInterval

\* C33: a lookup that has returned returned what GetServer gives on one of
\* the rings that stood between its call and its return: never a server of
\* a ring in the middle of a mutation, never a panic, and
\* ErrNoServersAvailable only when one of those rings was empty.
C33_LookupAtomic ==
    lk.rd.pc = "done"
    => lk.rd.result \in lk.rd.seen

\* A lookup returned a server while a mutation that changes the key's owner
\* finished between its call and its return.
C33_Witness ==
    /\ lk.rd.pc = "done"
    /\ lk.rd.result \in LockServers
    /\ \E a, b \in lk.rd.seen : a # NoServer /\ b # NoServer /\ a # b

\* C34: when a cleanup cycle is over, cleanupSession has run on every session
\* the cycle found, whatever failed while one of them was handled.
C34_EverySelectedSessionProcessed ==
    job.pc = "idle" => job.cleanedCount + job.errorCount = job.found

\* A cycle that found two sessions is over, the handling of the first met a
\* failure and the second was handled after it.
C34_Witness ==
    /\ job.pc = "idle"
    /\ job.found = 2
    /\ job.failedAt = 1
    /\ job.cleanedCount + job.errorCount = 2

\* C35: a step of the cleanup job leaves alone everything of a session that
\* is not active or expires in the future: its upload_sessions row, its files row,
\* the chunks rows of its file and their chunk files.
C35_CycleSparesOtherSessions ==
    [][ (job.pc = "run" /\ job' # job) =>
            \A x \in sessions :
                (x.status # "active" \/ x.expires_at > now)
                => /\ x \in sessions'
                   /\ files'[x.file_id] = files[x.file_id]
                   /\ \A c \in chunks :
                         c.file_id = x.file_id
                         => /\ c \in chunks'
                            /\ disk'[c.storage_server_id][c.chunk_id]
                                 = disk[c.storage_server_id][c.chunk_id] ]_vars

\* C39: a step of the cleanup job leaves the files row of a completed file,
\* its chunks rows and their chunk files as they were.
C39_CompletedFileKept ==
    [][ (job.pc = "run" /\ job' # job) =>
            \A f \in FileIds :
                (files[f].exists /\ files[f].upload_status = "completed")
                => /\ files'[f] = files[f]
                   /\ \A c \in chunks :
                         c.file_id = f
                         => /\ c \in chunks'
                            /\ disk'[c.storage_server_id][c.chunk_id]
                                 = disk[c.storage_server_id][c.chunk_id] ]_vars

\* C37: a PutChunk stream for the chunk id of a chunk that the server has
\* stored and answered OK for leaves that chunk file as it was.
C37_StoredChunkImmutable ==
    [][ ( /\ rpc.op = "put"
          /\ rpc.status = "OK"
          /\ rpc'.op = "put"
          /\ rpc'.chunk_id = rpc.chunk_id )
        => disk'[rpc.server][rpc.chunk_id] = disk[rpc.server][rpc.chunk_id] ]_vars

\* C38: a DeleteFile request that found the file and met no database failure
\* is answered 200 with deleted_chunks + failed_chunks equal to the number of
\* chunks rows the file had, and leaves no files row and no chunks row of the
\* file, however many chunk file deletions failed.
C38_DeleteRemovesMetadata ==
    (del.pc = "done" /\ del.found /\ ~del.dbFault)
    => /\ del.code = 200
       /\ del.deletedChunks + del.failedChunks = del.had
       /\ ~files[del.file].exists
       /\ \A c \in chunks : c.file_id # del.file

\* C40: a half-open breaker that has used up its admissions has a call in
\* flight, so with no call in flight the breaker is closed, open or still
\* admitting; and an open breaker whose last recorded failure is more than
\* the open timeout ago admits the next request.
C40_BreakerNeverStuck ==
    LET cb == breakers[ShellServer]
    IN  /\ (cb.state = "half-open" /\ cb.halfOpenRequests >= HalfOpenMaxRequests)
           => shell.old + shell.cur > 0
        /\ (cb.state = "open" /\ now - cb.lastFailureTime > OpenTimeout)
           => beforeRequest(cb, now)[2]

\* A half-open breaker has used up its admissions while calls admitted in
\* this half-open period are in flight.
C40_Witness ==
    /\ breakers[ShellServer].state = "half-open"
    /\ breakers[ShellServer].halfOpenRequests >= HalfOpenMaxRequests
    /\ shell.cur > 0
============================================================================
